---- MODULE Spec2Model ----
\* A model of markdown-fmt's streaming pipeline:
\*   * SequentialBlockAdapter (src/src/adapters/sequential_blocks.rs), and
\*   * the format engine FormatState (src/src/formatter/formatting_states*).
\* The specifications share the variables:
\*   SpecAdapter  the adapter on every upstream event sequence,
\*   SpecEngine   MarkdownFormatter::format on parsed documents, twice over,
\*   SpecStream   FormatState::format on arbitrary Start / End event streams,
\*   SpecBlock    FormatState::format on single blocks,
\* and one specification for each function exercised on its own.
EXTENDS Integers, Sequences, FiniteSets, TLC

VARIABLES
    \* ---- build configuration ----
    debug_assertions,       \* cfg!(debug_assertions): debug_assert! is compiled in
    \* ---- SequentialBlockAdapter ----
    upstream,               \* the events the inner iterator has yielded so far
    inner_done,             \* the inner iterator has returned None
    context,                \* SequentialBlockAdapter::context
    out_of_place_events,    \* SequentialBlockAdapter::out_of_place_events (upstream indices)
    emitted,                \* upstream indices returned by next(), in order
    buffered,               \* upstream indices that were ever pushed to the queue
    apc,                    \* "idle" | "ready" | "finished" | "panic_no_end" | "panic_assert"
    \* ---- FormatState ----
    fs,                     \* the FormatState being consumed by format()
    epc,                    \* "idle" | "run" | "done" | "panic" | "error"
    output,                 \* the String format() returned
    pass,                   \* 1: formatting the document, 2: formatting the first output
    first_output,           \* the output of pass 1, during pass 2
    handed,                 \* the reference_links handed to FormatState::new
    delivered,              \* the event stream handed to FormatState::new
    \* ---- a function called on its own ----
    arg,                    \* the arguments of the call
    ret                     \* <<>> before the call returns, then <<the value returned>>

adapterVars == <<upstream, inner_done, context, out_of_place_events, emitted, buffered, apc>>

engineVars == <<fs, epc, output, pass, first_output, handed, delivered>>

unitVars == <<arg, ret>>

vars == <<debug_assertions, adapterVars, engineVars, unitVars>>

None == "None"

\* ------------------------------------------------------------------
\* Bounds
\* ------------------------------------------------------------------
\* Longest upstream event sequence fed to the adapter.
MaxUpstream == 6

\* ------------------------------------------------------------------
\* Strings: a string is a sequence of one-character strings. Offsets into
\* the source are 0-based and ranges half-open, as in the Rust code.
\* ------------------------------------------------------------------
Max(S) == CHOOSE x \in S : \A y \in S : y <= x
Min(S) == CHOOSE x \in S : \A y \in S : x <= y

IsWhitespace(c) == c \in {" ", "\n", "\t"}

\* s[a..b]
Slice(s, a, b) == SubSeq(s, a + 1, b)

\* s[a..]
SliceFrom(s, a) == SubSeq(s, a + 1, Len(s))

AllWhitespace(s) == \A i \in 1..Len(s) : IsWhitespace(s[i])

CountChar(s, c) == Cardinality({i \in 1..Len(s) : s[i] = c})

\* The number of leading (trailing) characters of s that are in the set cs.
LeadingIn(s, cs) ==
    LET other == {i \in 1..Len(s) : s[i] \notin cs}
    IN  IF other = {} THEN Len(s) ELSE Min(other) - 1

TrailingIn(s, cs) ==
    LET other == {i \in 1..Len(s) : s[i] \notin cs}
    IN  IF other = {} THEN Len(s) ELSE Len(s) - Max(other)

TrimStartMatches(s, cs) == SubSeq(s, LeadingIn(s, cs) + 1, Len(s))
TrimEndMatches(s, cs) == SubSeq(s, 1, Len(s) - TrailingIn(s, cs))

Whitespace == {" ", "\n", "\t"}
TrimStart(s) == TrimStartMatches(s, Whitespace)
TrimEnd(s) == TrimEndMatches(s, Whitespace)
Trim(s) == TrimStart(TrimEnd(s))

EndsWith(s, c) == s # <<>> /\ s[Len(s)] = c
StartsWith(s, c) == s # <<>> /\ s[1] = c

\* str::split_inclusive('\n')
RECURSIVE SplitInclusive(_)
SplitInclusive(s) ==
    IF s = <<>> THEN <<>>
    ELSE LET nls == {i \in 1..Len(s) : s[i] = "\n"}
         IN  IF nls = {} THEN <<s>>
             ELSE <<SubSeq(s, 1, Min(nls))>> \o SplitInclusive(SubSeq(s, Min(nls) + 1, Len(s)))

\* The concatenation of a sequence of strings.
RECURSIVE Concat(_)
Concat(ss) == IF ss = <<>> THEN <<>> ELSE Head(ss) \o Concat(Tail(ss))

\* Option<T>: <<>> is None, <<x>> is Some(x).
NoneOpt == <<>>
Some(x) == <<x>>
IsSome(o) == o # <<>>
Unwrap(o) == o[1]
OptionOf(S) == {NoneOpt} \cup {Some(x) : x \in S}

\* ------------------------------------------------------------------
\* SequentialBlockAdapter
\* ------------------------------------------------------------------
\* No function is called on its own while the adapter or the engine runs.
UnitIdle ==
    /\ arg = <<>>
    /\ ret = <<>>

\* No FormatState exists while the adapter is exercised on its own.
EngineIdle ==
    /\ fs = <<>>
    /\ epc = "idle"
    /\ output = <<>>
    /\ pass = 0
    /\ first_output = <<>>
    /\ handed = <<>>
    /\ delivered = <<>>

Ev(type, tag) == [type |-> type, tag |-> tag]

\* Events the upstream iterator may yield: Start / End of the three block
\* kinds of the family, and one event that is neither (Text).
UpstreamEvents ==
    {Ev(ty, tg) : ty \in {"Start", "End"}, tg \in {"Paragraph", "CodeBlock", "HtmlBlock"}}
        \cup {Ev("Text", None)}

context_of_tag_no_html(tag) ==
    CASE tag = "CodeBlock" -> "CodeBlock"
      [] tag = "Paragraph" -> "Paragraph"
      [] OTHER -> None

context_of_tag(tag) ==
    CASE tag = "CodeBlock" -> "CodeBlock"
      [] tag = "HtmlBlock" -> "HtmlBlock"
      [] tag = "Paragraph" -> "Paragraph"
      [] OTHER -> None

\* End(CodeBlock) closes no context.
context_of_tag_end_no_code(tag) ==
    CASE tag = "HtmlBlock" -> "HtmlBlock"
      [] tag = "Paragraph" -> "Paragraph"
      [] OTHER -> None

context_of_tag_end(tag) ==
    CASE tag = "CodeBlock" -> "CodeBlock"
      [] tag = "HtmlBlock" -> "HtmlBlock"
      [] tag = "Paragraph" -> "Paragraph"
      [] OTHER -> None

IsMatchingEnd(e, ctx) == e.type = "End" /\ context_of_tag_end(e.tag) = ctx

SeqsUpTo(S, n) == UNION {[1..k -> S] : k \in 0..n}

\* The runs of `for (event, range) in self.inner.by_ref()` in
\* exhaust_mismatching_context: the events read from the inner iterator, none
\* but possibly the last being an End of the open context.
ExhaustRuns(ctx, room) ==
    {s \in SeqsUpTo(UpstreamEvents, room) :
        \A i \in 1..(Len(s) - 1) : ~IsMatchingEnd(s[i], ctx)}

\* The events read by the loop are not kept.
exhaust_mismatching_context_forgetting(q, ctx, base, run) ==
    [queue |-> q,
     returned |-> IF run # <<>> /\ IsMatchingEnd(run[Len(run)], ctx)
                  THEN base + Len(run) ELSE 0]

\* exhaust_mismatching_context, entered with queue `q` (the caller has pushed
\* the early Start) and open context `ctx`; `run` is what the inner iterator
\* yields during the loop, `base` the number of events read before it.
\* Returns the queue, the returned event (0: none, the call panicked).
exhaust_mismatching_context(q, ctx, base, run) ==
    LET found == run # <<>> /\ IsMatchingEnd(run[Len(run)], ctx)
        nbuf == IF found THEN Len(run) - 1 ELSE Len(run)
    IN  [queue |-> q \o [i \in 1..nbuf |-> base + i],
         returned |-> IF found THEN base + Len(run) ELSE 0]

\* The match of next() on the event `id` (an index of `ups`) it obtained, `q`
\* being the queue after the pop and `run` what the inner iterator yields
\* should exhaust_mismatching_context be called. Returns the adapter's next state.
next_match(id, q, ups, done, run) ==
    LET event == ups[id]
        start_ctx == IF event.type = "Start" THEN context_of_tag(event.tag) ELSE None
        end_ctx == IF event.type = "End" THEN context_of_tag_end(event.tag) ELSE None
    IN  IF start_ctx # None /\ context # None
        THEN \* Entering a new context without exiting the current one.
             LET r == exhaust_mismatching_context(Append(q, id), context, Len(ups), run)
                 all == ups \o run
             IN  [upstream |-> all,
                  inner_done |-> done \/ r.returned = 0,
                  out_of_place_events |-> r.queue,
                  buffered |-> buffered \cup {r.queue[i] : i \in 1..Len(r.queue)},
                  context |-> IF r.returned = 0 THEN context ELSE None,
                  emitted |-> IF r.returned = 0 THEN emitted ELSE Append(emitted, r.returned),
                  apc |-> IF r.returned = 0 THEN "panic_no_end" ELSE "ready"]
        ELSE IF end_ctx # None /\ debug_assertions /\ context # end_ctx
        THEN \* debug_assert_eq!(self.context, context) fails
             [upstream |-> ups, inner_done |-> done, out_of_place_events |-> q,
              buffered |-> buffered, context |-> context, emitted |-> emitted,
              apc |-> "panic_assert"]
        ELSE [upstream |-> ups, inner_done |-> done, out_of_place_events |-> q,
              buffered |-> buffered,
              context |-> IF start_ctx # None THEN start_ctx
                          ELSE IF end_ctx # None THEN None ELSE context,
              emitted |-> Append(emitted, id),
              apc |-> "ready"]

\* What the inner iterator may yield inside exhaust_mismatching_context.
RunsFor(id, ups, done) ==
    IF /\ ups[id].type = "Start"
       /\ context_of_tag(ups[id].tag) # None
       /\ context # None
    THEN ExhaustRuns(context, IF done THEN 0 ELSE MaxUpstream - Len(ups))
    ELSE {<<>>}

SetAdapter(a) ==
    /\ upstream' = a.upstream
    /\ inner_done' = a.inner_done
    /\ out_of_place_events' = a.out_of_place_events
    /\ buffered' = a.buffered
    /\ context' = a.context
    /\ emitted' = a.emitted
    /\ apc' = a.apc

\* next(): `out_of_place_events.pop_front().or_else(|| self.inner.next())?`
\* followed by the match on the event.
SequentialBlockAdapter_next ==
    /\ apc = "ready"
    /\ UNCHANGED <<debug_assertions, engineVars, unitVars>>
    /\ IF out_of_place_events # <<>>
       THEN LET id == Head(out_of_place_events)
            IN  \E run \in RunsFor(id, upstream, inner_done) :
                    SetAdapter(next_match(id, Tail(out_of_place_events),
                                          upstream, inner_done, run))
       ELSE \/ \* the inner iterator yields an event
               /\ ~inner_done
               /\ Len(upstream) < MaxUpstream
               /\ \E e \in UpstreamEvents :
                    LET ups == Append(upstream, e)
                    IN  \E run \in RunsFor(Len(ups), ups, FALSE) :
                            SetAdapter(next_match(Len(ups), <<>>, ups, FALSE, run))
            \/ \* the inner iterator is exhausted: next() returns None
               /\ apc' = "finished"
               /\ inner_done' = TRUE
               /\ UNCHANGED <<upstream, context, out_of_place_events, emitted, buffered>>

AdapterInit ==
    /\ debug_assertions \in BOOLEAN
    /\ upstream = <<>>
    /\ inner_done = FALSE
    /\ context = None
    /\ out_of_place_events = <<>>
    /\ emitted = <<>>
    /\ buffered = {}
    /\ apc = "ready"
    /\ EngineIdle
    /\ UnitIdle

AdapterNext == SequentialBlockAdapter_next

SpecAdapter == AdapterInit /\ [][AdapterNext]_vars

\* ------------------------------------------------------------------
\* Events and tags handed to the engine
\* ------------------------------------------------------------------
\* An event with its source range start..end. `tag` is the Tag / TagEnd
\* variant of a Start / End event, `kind` its discriminating payload
\* (CodeBlockKind, ordered / unordered list, LinkType, heading level,
\* MetadataBlockKind) and `text` the event's parsed text (info string for a
\* fenced code block).
MkEvent(type, tag, kind, text, start, end) ==
    [type |-> type, tag |-> tag, kind |-> kind, text |-> text,
     start |-> start, end |-> end]

Range(a, b) == [start |-> a, end |-> b]
RangeOf(e) == Range(e.start, e.end)

\* Tag carried by a Start event, as pushed on nested_context.
TagOf(e) == [tag |-> e.tag, kind |-> e.kind, text |-> e.text]

\* Tag::to_end. TagEnd keeps a payload for Heading, List and MetadataBlock
\* only. The payload of Tag::List is "unordered" or the first number of an
\* ordered list, that of TagEnd::List "unordered" or "ordered".
to_end(t) ==
    [tag |-> t.tag,
     kind |-> IF t.tag \in {"Heading", "MetadataBlock"} THEN t.kind
              ELSE IF t.tag = "List"
              THEN (IF t.kind = "unordered" THEN "unordered" ELSE "ordered")
              ELSE ""]

TagEndOf(e) ==
    [tag |-> e.tag,
     kind |-> IF e.tag \in {"Heading", "List", "MetadataBlock"} THEN e.kind ELSE ""]

\* ------------------------------------------------------------------
\* ExternalFormatter (DefaultFormatterCombination)
\* ------------------------------------------------------------------
\* BufferType::to_formatting_context is the identity on the four names.
ExternalFormatter_new(buffer_type, max_width) ==
    [context |-> buffer_type, buffer |-> <<>>, max_width |-> max_width]

\* Paragraph::write_str's is_hard_break
is_hard_break(t) ==
    /\ Len(t) >= 2 /\ t[1] = " " /\ t[2] = " "
    /\ TrimStartMatches(SubSeq(t, 3, Len(t)), {" "}) = <<"\n">>

Paragraph_write_str(ef, t) ==
    IF IsSome(ef.max_width) /\ is_hard_break(t)
    THEN [ef EXCEPT !.buffer = @ \o <<" ", " ", "\n">>]
    ELSE IF IsSome(ef.max_width) /\ Trim(t) = <<>>
    THEN [ef EXCEPT !.buffer = Append(@, " ")]
    ELSE [ef EXCEPT !.buffer = @ \o t]

\* TrimTo4Indent::write_str, one line of the split at a time.
RECURSIVE TrimTo4Indent_push_lines(_, _)
TrimTo4Indent_push_lines(buffer, lines) ==
    IF lines = <<>> THEN buffer
    ELSE LET line == Head(lines)
             n == LeadingIn(line, {" "}) % 4
             kept == IF buffer = <<>> \/ EndsWith(buffer, "\n")
                     THEN SubSeq(line, n + 1, Len(line))
                     ELSE line
         IN  TrimTo4Indent_push_lines(buffer \o kept, Tail(lines))

TrimTo4Indent_write_str(ef, t) ==
    [ef EXCEPT !.buffer = TrimTo4Indent_push_lines(@, SplitInclusive(t))]

PreservingBuffer_write_str(ef, t) == [ef EXCEPT !.buffer = @ \o t]

\* impl Write for FormatterCombination
FormatterCombination_write_str(ef, t) ==
    CASE ef.context = "CodeBlock" -> PreservingBuffer_write_str(ef, t)
      [] ef.context \in {"DisplayMath", "HtmlBlock"} -> TrimTo4Indent_write_str(ef, t)
      [] ef.context = "Paragraph" -> Paragraph_write_str(ef, t)

\* into_buffer. Paragraph::into_buffer re-wraps only when max_width is set
\* and some line is longer; the configurations modelled leave max_width unset.
into_buffer(ef) == ef.buffer

\* ------------------------------------------------------------------
\* TableState
\* ------------------------------------------------------------------
\* rows[1] is the header row; a row is a sequence of cell strings.
TableState_new(alignment) == [alignment |-> alignment, rows |-> <<<<>>>>, col |-> 0]

TableState_push_row(ts) == [ts EXCEPT !.rows = Append(@, <<>>), !.col = 0]

TableState_is_empty(ts) == \A r \in 1..Len(ts.rows) : ts.rows[r] = <<>>

\* Append text to the cell under the cursor, creating the cell if needed.
TableState_write(ts, t) ==
    LET r == Len(ts.rows)
        row == ts.rows[r]
    IN  IF ts.col + 1 <= Len(row)
        THEN [ts EXCEPT !.rows[r][ts.col + 1] = @ \o t]
        ELSE [ts EXCEPT !.rows[r] = Append(row, t)]

TableState_increment_col_index(ts) == [ts EXCEPT !.col = @ + 1]

PadTo(cell, w) == cell \o [i \in 1..(w - Len(cell)) |-> " "]

AlignmentCell(a, w) ==
    LET dashes(n) == [i \in 1..n |-> "-"]
    IN  CASE a = "Left" -> <<":">> \o dashes(w - 1)
          [] a = "Right" -> dashes(w - 1) \o <<":">>
          [] a = "Center" -> <<":">> \o dashes(w - 2) \o <<":">>
          [] OTHER -> dashes(w)

\* The pipe-delimited block without the leading "|" of its lines, which
\* start_tag writes for the first line and, as the indentation it pushes,
\* join_with_indentation for the others: header row, alignment row, body rows,
\* every column padded to its widest cell (at least 3, the alignment row's
\* width).
TableState_format(ts) ==
    LET ncols == Len(ts.alignment)
        cell(r, c) == IF c <= Len(ts.rows[r]) THEN Trim(ts.rows[r][c]) ELSE <<>>
        width(c) == Max({3} \cup {Len(cell(r, c)) : r \in 1..Len(ts.rows)})
        RECURSIVE line(_, _)
        line(r, c) ==
            IF c > ncols THEN <<>>
            ELSE <<" ">> \o PadTo(cell(r, c), width(c)) \o <<" ", "|">> \o line(r, c + 1)
        RECURSIVE align(_)
        align(c) ==
            IF c > ncols THEN <<>>
            ELSE <<" ">> \o AlignmentCell(ts.alignment[c], width(c)) \o <<" ", "|">>
                    \o align(c + 1)
        RECURSIVE body(_)
        body(r) ==
            IF r > Len(ts.rows) THEN <<>>
            ELSE <<"\n">> \o line(r, 1) \o body(r + 1)
    IN  line(1, 1) \o <<"\n">> \o align(1) \o body(2)

\* ------------------------------------------------------------------
\* FormatState
\* ------------------------------------------------------------------
\* Config::default(): every field None.
Config_default ==
    [max_width |-> NoneOpt, fixed_zero_padding |-> NoneOpt, fixed_number |-> NoneOpt,
     fixed_ordered_list_marker |-> NoneOpt, fixed_unordered_list_marker |-> NoneOpt,
     fixed_indentation |-> NoneOpt,
     fixed_emphasis_marker |-> NoneOpt, fixed_strong_marker |-> NoneOpt]

\* FormatState::new. `panic` is "" while the run has not panicked,
\* `popped_tag` holds the result of the last nested_context.pop() and
\* `written` lists, in order, the definitions written and the events whose
\* output began, `dropped` the non-empty strings written while current_buffer
\* gave no buffer. `reject` is the fault of the external formatter E, any
\* implementation of std::fmt::Write: None when its write_str always returns
\* Ok, as those of this crate do, Some(n) when it returns Err after n more
\* writes. `error` is the Err a write returned, carried up by the `?` of
\* every caller; `rejections` counts the writes a sink rejected and `late`
\* lists the strings stored after one. `newline_calls` lists the calls of
\* write_newlines_inner: the arguments and the FormatState each was made on.
FormatState_new(input, config, iter, reference_links) ==
    [input |-> input,
     last_was_softbreak |-> FALSE,
     events |-> iter,
     rewrite_buffer |-> <<>>,
     external_formatter |-> NoneOpt,
     indentation |-> <<>>,
     nested_context |-> <<>>,
     reference_links |-> reference_links,
     setext_header |-> NoneOpt,
     header_id_and_classes |-> NoneOpt,
     needs_indent |-> FALSE,
     table_state |-> NoneOpt,
     last_position |-> 0,
     trim_link_or_image_start |-> FALSE,
     force_rewrite_buffer |-> FALSE,
     config |-> config,
     popped_tag |-> NoneOpt,
     written |-> <<>>,
     dropped |-> <<>>,
     reject |-> NoneOpt,
     error |-> FALSE,
     rejections |-> 0,
     late |-> <<>>,
     newline_calls |-> <<>>,
     panic |-> ""]

\* A panic: the first one wins, the run stops there; nothing panics once an
\* Err is on its way up.
Panic(st, msg) == IF st.panic # "" \/ st.error THEN st ELSE [st EXCEPT !.panic = msg]

peek(st) == IF st.events = <<>> THEN NoneOpt ELSE Some(Head(st.events))

PeekIs(st, type, tags) ==
    /\ st.events # <<>>
    /\ Head(st.events).type = type
    /\ Head(st.events).tag \in tags

is_next_end_event(st) == st.events # <<>> /\ Head(st.events).type = "End"

LastTag(st) ==
    IF st.nested_context = <<>> THEN NoneOpt
    ELSE Some(st.nested_context[Len(st.nested_context)])

in_fenced_code_block(st) ==
    /\ IsSome(LastTag(st))
    /\ Unwrap(LastTag(st)).tag = "CodeBlock" /\ Unwrap(LastTag(st)).kind = "Fenced"

in_indented_code_block(st) ==
    /\ IsSome(LastTag(st))
    /\ Unwrap(LastTag(st)).tag = "CodeBlock" /\ Unwrap(LastTag(st)).kind = "Indented"

ExternalContext(st) ==
    IF IsSome(st.external_formatter) THEN Unwrap(st.external_formatter).context ELSE None

in_html_block(st) == ExternalContext(st) = "HtmlBlock"

in_table_header(st) ==
    \E i \in 1..Len(st.nested_context) : st.nested_context[i].tag = "TableHead"

\* A TableRow looked for on top of the stack only.
in_table_row_on_top(st) ==
    IsSome(LastTag(st)) /\ Unwrap(LastTag(st)).tag = "TableRow"

in_table_row(st) ==
    \E i \in 1..Len(st.nested_context) : st.nested_context[i].tag = "TableRow"

in_link_or_image(st) ==
    IsSome(LastTag(st)) /\ Unwrap(LastTag(st)).tag \in {"Link", "Image"}

in_paragraph(st) == ExternalContext(st) = "Paragraph"

is_nested(st) == st.nested_context # <<>>

current_buffer_table_first(st) ==
    IF st.force_rewrite_buffer THEN "rewrite_buffer"
    ELSE IF in_table_header(st) \/ in_table_row(st)
    THEN IF IsSome(st.table_state) THEN "table_state" ELSE "none"
    ELSE IF in_fenced_code_block(st) \/ in_indented_code_block(st)
    THEN IF IsSome(st.external_formatter) THEN "external_formatter" ELSE "none"
    ELSE IF IsSome(st.external_formatter) THEN "external_formatter"
    ELSE "rewrite_buffer"

\* current_buffer: which buffer a write goes to ("none": the write is dropped).
current_buffer(st) ==
    IF st.force_rewrite_buffer THEN "rewrite_buffer"
    ELSE IF in_fenced_code_block(st) \/ in_indented_code_block(st)
    THEN IF IsSome(st.external_formatter) THEN "external_formatter" ELSE "none"
    ELSE IF in_html_block(st) THEN "external_formatter"
    ELSE IF in_table_header(st) \/ in_table_row(st)
    THEN IF IsSome(st.table_state) THEN "table_state" ELSE "none"
    ELSE IF IsSome(st.external_formatter) THEN "external_formatter"
    ELSE "rewrite_buffer"

is_current_buffer_empty(st) ==
    IF in_fenced_code_block(st) \/ in_indented_code_block(st) \/ in_html_block(st)
    THEN IsSome(st.external_formatter) /\ Unwrap(st.external_formatter).buffer = <<>>
    ELSE IF in_table_header(st) \/ in_table_row(st)
    THEN IsSome(st.table_state) /\ TableState_is_empty(Unwrap(st.table_state))
    ELSE IF IsSome(st.external_formatter)
    THEN Unwrap(st.external_formatter).buffer = <<>>
    ELSE st.rewrite_buffer = <<>>

\* A call of a method of FormatState, by name. Every method is reached through
\* this one operator, which is defined after format_one_event.
RECURSIVE Call(_, _)

\* writer.write_str(text) returning Ok: the text is in the buffer.
store(st, t) ==
    LET b == current_buffer(st)
        late == IF st.rejections > 0 THEN Append(st.late, t) ELSE st.late
    IN  CASE b = "rewrite_buffer" -> [st EXCEPT !.rewrite_buffer = @ \o t, !.late = late]
          [] b = "external_formatter" ->
                [st EXCEPT !.external_formatter =
                                Some(FormatterCombination_write_str(Unwrap(@), t)),
                           !.reject = IF @ = NoneOpt THEN @ ELSE Some(Unwrap(@) - 1),
                           !.late = late]
          [] b = "table_state" ->
                [st EXCEPT !.table_state = Some(TableState_write(Unwrap(@), t)),
                           !.late = late]
          [] OTHER -> IF t = <<>> THEN st ELSE [st EXCEPT !.dropped = Append(@, t)]

\* The external formatter returns Err for this write.
Rejects(st) == current_buffer(st) = "external_formatter" /\ st.reject = Some(0)

write_str_swallowing(st, t) ==
    IF Rejects(st) THEN [st EXCEPT !.rejections = @ + 1] ELSE store(st, t)

\* impl Write for FormatState; a write_str reached after an Err stands for
\* code behind a `?` that has returned.
write_str(st, t) ==
    IF st.error THEN st
    ELSE IF Rejects(st) THEN [st EXCEPT !.error = TRUE, !.rejections = @ + 1]
    ELSE store(st, t)

\* Successive write_str calls, one per piece.
RECURSIVE write_all(_, _)
write_all(st, pieces) ==
    IF pieces = <<>> THEN st ELSE write_all(Call("write_str", <<st, Head(pieces)>>), Tail(pieces))

\* count_newlines slices input[last_position..range.end] when last_position
\* lies beyond range.start; the slice panics when it also lies beyond range.end.
count_newlines_panics(st, range) ==
    st.last_position > range.start /\ st.last_position > range.end

count_newlines(st, range) ==
    IF st.last_position = range.start THEN 0
    ELSE IF st.last_position < range.start
    THEN CountChar(Slice(st.input, st.last_position, range.start), "\n")
    ELSE CountChar(TrimEndMatches(Slice(st.input, st.last_position, range.end), {"\n"}), "\n")

\* The state after evaluating count_newlines(range): unchanged, or panicked.
count_newlines_checked(st, range) ==
    IF count_newlines_panics(st, range)
    THEN Panic(st, "count_newlines: slice index starts after its end")
    ELSE st

write_indentation(st, trim_trailing_whitespace) ==
    LET non_ws == {i \in 1..Len(st.indentation) : ~AllWhitespace(st.indentation[i])}
    IN  IF trim_trailing_whitespace /\ non_ws = {}
        THEN st
        ELSE LET position == IF trim_trailing_whitespace THEN Max(non_ws)
                             ELSE Len(st.indentation) + 1
                 n == IF position < Len(st.indentation) THEN position
                      ELSE Len(st.indentation)
                 pieces == [i \in 1..n |->
                              IF i = position /\ trim_trailing_whitespace
                              THEN Trim(st.indentation[i])
                              ELSE st.indentation[i]]
             IN  write_all(st, pieces)

\* The loop of write_newlines_inner, `left` iterations remaining.
RECURSIVE write_newlines_loop(_, _, _, _)
write_newlines_loop(st, left, nested, always_trim) ==
    IF left = 0 THEN st
    ELSE LET st1 == Call("write_str", <<st, <<"\n">>>>)
             st2 == IF nested THEN Call("write_indentation", <<st1, left # 1 \/ always_trim>>)
                    ELSE st1
         IN  write_newlines_loop(st2, left - 1, nested, always_trim)

\* Every one of the newlines asked for is written.
newlines_to_write_all(st, max_newlines) == max_newlines

\* max_newlines.saturating_sub(newlines), with `newlines` the newlines the
\* rewrite buffer ends with.
newlines_to_write(st, max_newlines) ==
    LET newlines == TrailingIn(st.rewrite_buffer, {"\n"})
    IN  IF max_newlines > newlines THEN max_newlines - newlines ELSE 0

\* The call is listed in newline_calls.
log_newline_call(st, max_newlines, always_trim_trailing_whitespace) ==
    IF st.panic # "" \/ st.error THEN st
    ELSE [st EXCEPT !.newline_calls =
            Append(@, [st |-> [st EXCEPT !.newline_calls = <<>>],
                       max_newlines |-> max_newlines,
                       always_trim |-> always_trim_trailing_whitespace])]

write_newlines_inner(st, max_newlines, always_trim_trailing_whitespace) ==
    IF is_current_buffer_empty(st)
    THEN log_newline_call(st, max_newlines, always_trim_trailing_whitespace)
    ELSE LET nested == is_nested(st)
             next_is_end_event == is_next_end_event(st)
             st1 == write_newlines_loop(
                        log_newline_call(st, max_newlines, always_trim_trailing_whitespace),
                        newlines_to_write(st, max_newlines), nested,
                        always_trim_trailing_whitespace)
         IN  IF ~nested
             THEN Call("write_indentation", <<st1, next_is_end_event \/ always_trim_trailing_whitespace>>)
             ELSE st1

write_newlines(st, max_newlines) == Call("write_newlines_inner", <<st, max_newlines, FALSE>>)

write_newlines_no_trailing_whitespace(st, max_newlines) ==
    Call("write_newlines_inner", <<st, max_newlines, TRUE>>)

\* write_indentation_if_needed: the state, and the returned flag.
indentation_needed(st) == st.rewrite_buffer = <<>> \/ EndsWith(st.rewrite_buffer, "\n")

write_indentation_if_needed(st) ==
    IF indentation_needed(st) THEN Call("write_indentation", <<st, FALSE>>) ELSE st

write_newlines_before_code_block(st, newlines) ==
    Call("write_indentation_if_needed", <<write_all(st, [i \in 1..newlines |-> <<"\n">>])>>)

write_newline_after_code_block(st, empty_code_block) ==
    LET st1 == IF ~empty_code_block /\ ~EndsWith(st.rewrite_buffer, "\n")
               THEN Call("write_str", <<st, <<"\n">>>>) ELSE st
    IN  Call("write_indentation", <<st1, FALSE>>)

\* links::balanced_parens; `open` is the stack height (it only ever holds '(').
RECURSIVE balanced_parens_from(_, _, _, _)
balanced_parens_from(url, i, open, was_last_escape) ==
    IF i > Len(url) THEN open = 0
    ELSE IF ~was_last_escape /\ url[i] = "("
    THEN balanced_parens_from(url, i + 1, open + 1, was_last_escape)
    ELSE IF ~was_last_escape /\ url[i] = ")" /\ open = 0 THEN FALSE
    ELSE balanced_parens_from(url, i + 1,
            IF ~was_last_escape /\ url[i] = ")" THEN open - 1 ELSE open,
            url[i] = "\\")

balanced_parens(url) == balanced_parens_from(url, 1, 0, FALSE)

\* links::format_link_url
format_link_url(url, wrap_empty_urls) ==
    IF wrap_empty_urls /\ url = <<>> THEN <<"<", ">">>
    ELSE IF \/ (~StartsWith(url, "<") /\ ~EndsWith(url, ">") /\ CountChar(url, " ") > 0)
            \/ ~balanced_parens(url)
    THEN <<"<">> \o url \o <<">">>
    ELSE url

\* A reference link definition: (label, dest, title, range); title is an
\* Option of (title, quote).
ReferenceLinkDefinition(label, dest, title, start, end) ==
    [label |-> label, dest |-> dest, title |-> title, start |-> start, end |-> end]

write_reference_link_definition_inner(st, label, dest, title) ==
    LET d == format_link_url(dest, TRUE)
        st1 == Call("write_newlines", <<st, 1>>)
        head == <<"[">> \o Trim(label) \o <<"]", ":", " ">> \o d
    IN  IF IsSome(title)
        THEN Call("write_str", <<st1, head \o <<" ", Unwrap(title).quote>> \o Unwrap(title).title
                                 \o <<Unwrap(title).quote>>>>)
        ELSE Call("write_str", <<st1, head>>)

\* One definition written: count_newlines, write_newlines, the definition,
\* last_position. `written` records the write.
write_one_reference_link(st, link) ==
    LET st1 == count_newlines_checked(st, Range(link.start, link.end))
        st2 == Call("write_newlines", <<st1, count_newlines(st, Range(link.start, link.end))>>)
        st3 == Call("write_reference_link_definition_inner", <<st2, link.label, link.dest, link.title>>)
    IN  IF st1.panic # "" THEN st1
        ELSE [st3 EXCEPT !.last_position = link.end,
                         !.written = Append(@, [what |-> "definition", start |-> link.start])]

\* The loop of rewrite_reference_link_definitions over the taken stack.
RECURSIVE rewrite_reference_link_loop(_, _, _)
rewrite_reference_link_loop(st, reference_links, range) ==
    IF reference_links = <<>> THEN [st EXCEPT !.reference_links = reference_links]
    ELSE LET top == reference_links[Len(reference_links)]
         IN  IF top.start > range.start
             THEN [st EXCEPT !.reference_links = reference_links]
             ELSE LET st1 == Call("write_one_reference_link", <<st, top>>)
                  IN  IF st1.panic # "" THEN st1
                      ELSE rewrite_reference_link_loop(
                               [st1 EXCEPT !.needs_indent = TRUE],
                               SubSeq(reference_links, 1, Len(reference_links) - 1),
                               range)

rewrite_reference_link_definitions(st, range) ==
    IF st.reference_links = <<>> THEN st
    ELSE rewrite_reference_link_loop([st EXCEPT !.reference_links = <<>>],
                                     st.reference_links, range)

\* rewrite_final_reference_links: the stack is written from its top down.
RECURSIVE rewrite_final_loop(_, _)
rewrite_final_loop(st, reference_links) ==
    IF reference_links = <<>> THEN st
    ELSE LET st1 == Call("write_one_reference_link", <<st, reference_links[Len(reference_links)]>>)
         IN  IF st1.panic # "" THEN st1
             ELSE rewrite_final_loop(st1, SubSeq(reference_links, 1, Len(reference_links) - 1))

rewrite_final_reference_links(st) ==
    rewrite_final_loop([st EXCEPT !.reference_links = <<>>], st.reference_links)

\* join_with_indentation, line by line.
RECURSIVE join_lines(_, _, _, _)
join_lines(st, lines, start_with_indentation, trim_last_newline) ==
    IF lines = <<>> THEN st
    ELSE LET line == Head(lines)
             is_last == Len(lines) = 1
             is_next_empty == ~is_last /\ Trim(lines[2]) = <<>>
             blank == Trim(line) = <<>>
             st1 == IF start_with_indentation THEN Call("write_indentation", <<st, blank>>) ELSE st
             st2 == IF blank THEN Call("write_str", <<st1, TrimStartMatches(line, {" "})>>)
                    ELSE IF is_last /\ trim_last_newline
                    THEN Call("write_str", <<st1, TrimEndMatches(line, {"\n"})>>)
                    ELSE Call("write_str", <<st1, line>>)
             st3 == IF ~is_last /\ ~start_with_indentation
                    THEN Call("write_indentation", <<st2, is_next_empty>>) ELSE st2
         IN  join_lines(st3, Tail(lines), start_with_indentation, trim_last_newline)

join_with_indentation(st, buffer, start_with_indentation, trim_last_newline) ==
    LET st1 == join_lines([st EXCEPT !.force_rewrite_buffer = TRUE],
                          SplitInclusive(buffer), start_with_indentation, trim_last_newline)
    IN  [st1 EXCEPT !.force_rewrite_buffer = FALSE]

flush_external_formatted_discarding(st, trim_last_newline) ==
    [st EXCEPT !.external_formatter = NoneOpt]

flush_external_formatted(st, trim_last_newline) ==
    IF ~IsSome(st.external_formatter) THEN st
    ELSE LET external_formatter == Unwrap(st.external_formatter)
             st0 == [st EXCEPT !.external_formatter = NoneOpt]
             external == external_formatter.context # "Paragraph"
             st1 == IF ~external \/ st0.rewrite_buffer = <<>>
                       \/ st0.rewrite_buffer[Len(st0.rewrite_buffer)] \in {"\n", " ", "$"}
                    THEN st0
                    ELSE Call("write_str", <<st0, <<"\n">>>>)
         IN  Call("join_with_indentation", <<st1, into_buffer(external_formatter),
                                   st1.needs_indent /\ external, trim_last_newline>>)

\* formatter_width; indentation_len is irrelevant while max_width is None.
formatter_width(st) == st.config.max_width

new_external_formatted(st, buffer_type) ==
    LET st1 == Call("flush_external_formatted", <<st, TRUE>>)
    IN  [st1 EXCEPT !.external_formatter =
            Some(ExternalFormatter_new(buffer_type, formatter_width(st1)))]

\* write_metadata_block_separator ends with writeln!(self, "{marker}")
write_metadata_block_separator(st, kind, range) ==
    LET st1 == count_newlines_checked(st, range)
        st2 == Call("write_newlines", <<st1, count_newlines(st, range)>>)
        marker == IF kind = "YamlStyle" THEN <<"-", "-", "-">> ELSE <<"+", "+", "+">>
    IN  Call("write_str", <<st2, marker \o <<"\n">>>>)

\* find_marker with the predicate of rewrite_marker_with_limit: the run of
\* the character at range.start, up to the first other character of
\* input[range.start..]; input[range] when there is no other character.
find_marker(input, range) ==
    LET rest == SliceFrom(input, range.start)
        run == LeadingIn(rest, {rest[1]})
    IN  IF run = Len(rest) THEN Slice(input, range.start, range.end)
        ELSE SubSeq(rest, 1, run)

\* rewrite_marker_with_limit panics when input[range.start..] is empty
\* (unwrap of None) or the marker is shorter than the limit (slice).
rewrite_marker_with_limit(st, range, size_limit) ==
    IF range.start >= Len(st.input) THEN Panic(st, "unwrap on None")
    ELSE LET marker == find_marker(st.input, range)
         IN  IF ~IsSome(size_limit) THEN Call("write_str", <<st, marker>>)
             ELSE IF Unwrap(size_limit) > Len(marker)
             THEN Panic(st, "slice end out of range")
             ELSE Call("write_str", <<st, SubSeq(marker, 1, Unwrap(size_limit))>>)

rewrite_marker(st, range) == Call("rewrite_marker_with_limit", <<st, range, NoneOpt>>)

write_emphasis_marker_of_source(st, range) ==
    Call("rewrite_marker_with_limit", <<st, range, Some(1)>>)

write_emphasis_marker(st, range) ==
    IF IsSome(st.config.fixed_emphasis_marker)
    THEN Call("write_str", <<st, Unwrap(st.config.fixed_emphasis_marker)>>)
    ELSE Call("rewrite_marker_with_limit", <<st, range, Some(1)>>)

write_strong_marker(st, range) ==
    IF IsSome(st.config.fixed_strong_marker)
    THEN Call("write_str", <<st, Unwrap(st.config.fixed_strong_marker)>>)
    ELSE Call("rewrite_marker_with_limit", <<st, range, Some(2)>>)

\* needs_indent left as it is.
check_needs_indent_skipped(st, event) == st

check_needs_indent(st, event) ==
    LET p == peek(st)
        needs_indent ==
            IF ~IsSome(p) THEN event.type = "Rule"
            ELSE LET n == Unwrap(p)
                 IN  IF n.type \in {"Start", "Rule", "Html"}
                        \/ (n.type = "End" /\ n.tag = "Item")
                     THEN TRUE
                     ELSE IF n.type = "End" /\ n.tag = "BlockQuote"
                     THEN event.type = "End"
                     ELSE IF n.type = "Text"
                     THEN event.type = "End" \/ (event.type = "Start" /\ event.tag = "Item")
                     ELSE event.type = "Rule"
    IN  [st EXCEPT !.needs_indent = needs_indent]

\* ------------------------------------------------------------------
\* List markers
\* ------------------------------------------------------------------
\* The length of ZERO_PADDING.
ZERO_PADDING_LEN == 20

ZERO_PADDING == [i \in 1..ZERO_PADDING_LEN |-> "0"]

\* ListMarker::zero_padding slices ZERO_PADDING[..zero_padding].
ListMarker_zero_padding_panics(m) == m.ordered /\ m.zero_padding > ZERO_PADDING_LEN

ListMarker_zero_padding(m) ==
    IF m.ordered THEN SubSeq(ZERO_PADDING, 1, m.zero_padding) ELSE <<>>

\* ListMarker::from_str: Err (None here) on a blank source, `-` for every
\* bullet, `1.` for everything else.
ListMarker_from_str(source) ==
    LET t == Trim(source)
    IN  IF t = <<>> THEN NoneOpt
        ELSE IF t[1] \in {"*", "+", "-"}
        THEN Some([ordered |-> FALSE, zero_padding |-> 0, number |-> 0, marker |-> "-"])
        ELSE Some([ordered |-> TRUE, zero_padding |-> 0, number |-> 1, marker |-> "."])

OrDefault(opt, default) == IF IsSome(opt) THEN Unwrap(opt) ELSE default

\* Config::list_marker
list_marker_of_source(config, source) == ListMarker_from_str(source)

list_marker(config, source) ==
    LET parsed == ListMarker_from_str(source)
    IN  IF ~IsSome(parsed) THEN NoneOpt
        ELSE LET m == Unwrap(parsed)
             IN  IF m.ordered
                 THEN Some([ordered |-> TRUE,
                            zero_padding |-> OrDefault(config.fixed_zero_padding, m.zero_padding),
                            number |-> OrDefault(config.fixed_number, m.number),
                            marker |-> OrDefault(config.fixed_ordered_list_marker, m.marker)])
                 ELSE Some([m EXCEPT !.marker =
                                OrDefault(config.fixed_unordered_list_marker, m.marker)])

\* ListMarker::indentation
ListMarker_indentation(m) == <<" ", " ", " ", " ">>

Digit(d) == CASE d = 0 -> "0" [] d = 1 -> "1" [] d = 2 -> "2" [] d = 3 -> "3"
              [] d = 4 -> "4" [] d = 5 -> "5" [] d = 6 -> "6" [] d = 7 -> "7"
              [] d = 8 -> "8" [] d = 9 -> "9"

\* Display of a usize
RECURSIVE NatToString(_)
NatToString(n) == IF n < 10 THEN <<Digit(n)>> ELSE NatToString(n \div 10) \o <<Digit(n % 10)>>

\* ------------------------------------------------------------------
\* start_tag
\* ------------------------------------------------------------------
push_tag(st, e) == [st EXCEPT !.nested_context = Append(@, TagOf(e))]

\* `if self.needs_indent { count_newlines; write_newlines; needs_indent = false }`
newlines_if_needs_indent(st, range) ==
    IF st.needs_indent
    THEN [Call("write_newlines", <<count_newlines_checked(st, range), count_newlines(st, range)>>)
            EXCEPT !.needs_indent = FALSE]
    ELSE st

\* `if self.needs_indent && newlines > 0 { write_newlines; needs_indent = false }`
\* after an unconditional count_newlines.
newlines_if_needs_indent_and_some(st, range) ==
    LET st1 == count_newlines_checked(st, range)
        newlines == count_newlines(st, range)
    IN  IF st1.needs_indent /\ newlines > 0
        THEN [Call("write_newlines", <<st1, newlines>>) EXCEPT !.needs_indent = FALSE]
        ELSE st1

\* str::trim_start_matches with a string pattern
RECURSIVE TrimStartMatchesStr(_, _)
TrimStartMatchesStr(t, pat) ==
    IF pat # <<>> /\ Len(t) >= Len(pat) /\ SubSeq(t, 1, Len(pat)) = pat
    THEN TrimStartMatchesStr(SubSeq(t, Len(pat) + 1, Len(t)), pat)
    ELSE t

HeadingLevels == {"H1", "H2", "H3", "H4", "H5", "H6"}

HeadingMarker(level) ==
    CASE level = "H1" -> <<"#", " ">>
      [] level = "H2" -> <<"#", "#", " ">>
      [] level = "H3" -> <<"#", "#", "#", " ">>
      [] level = "H4" -> <<"#", "#", "#", "#", " ">>
      [] level = "H5" -> <<"#", "#", "#", "#", "#", " ">>
      [] level = "H6" -> <<"#", "#", "#", "#", "#", "#", " ">>

\* The text after the last '\n' of t: t.split('\n').last()
LastLine(t) ==
    LET nls == {i \in 1..Len(t) : t[i] = "\n"}
    IN  IF nls = {} THEN t ELSE SubSeq(t, Max(nls) + 1, Len(t))

\* The text before the first '\n' of t: t.lines().next(), None when t is empty.
FirstLine(t) ==
    LET nls == {i \in 1..Len(t) : t[i] = "\n"}
    IN  IF t = <<>> THEN NoneOpt
        ELSE IF nls = {} THEN Some(t)
        ELSE Some(TrimEndMatches(SubSeq(t, 1, Min(nls) - 1), {"\r"}))

start_tag_Paragraph(st, e) ==
    Call("new_external_formatted", <<push_tag(Call("newlines_if_needs_indent", <<st, RangeOf(e)>>), e), "Paragraph">>)

start_tag_Heading(st, e) ==
    LET st1 == Call("newlines_if_needs_indent", <<
                   [st EXCEPT !.header_id_and_classes = Some(e.text)], RangeOf(e)>>)
        full_header == Trim(Slice(st.input, e.start, e.end))
        header == HeadingMarker(e.kind)
        empty_header ==
            TrimEndMatches(TrimStartMatchesStr(full_header, header),
                           Whitespace \cup {"#", "\\"}) = <<>>
    IN  IF CountChar(full_header, "\n") > 0
           /\ (EndsWith(full_header, "=") \/ EndsWith(full_header, "-"))
        THEN [st1 EXCEPT !.setext_header = Some(Trim(LastLine(full_header)))]
        ELSE IF empty_header THEN Call("write_str", <<st1, Trim(header)>>)
        ELSE Call("write_str", <<st1, header>>)

\* input[a..b], which panics when a > b
slice_checked(st, a, b) == IF a > b THEN Panic(st, "slice index starts after its end") ELSE st

set_last_indentation(st, indent) ==
    [st EXCEPT !.indentation[Len(st.indentation)] = indent]

push_indentation(st, indent) == [st EXCEPT !.indentation = Append(@, indent)]

start_tag_BlockQuote_spaced(st, e) ==
    push_indentation(Call("write_str", <<push_tag(st, e), <<">", " ">>>>), <<">", " ">>)

start_tag_BlockQuote(st, e) ==
    LET range == RangeOf(e)
        st1 == IF st.indentation # <<>> /\ st.indentation[Len(st.indentation)] = <<">", " ">>
               THEN set_last_indentation(st, <<">">>) ELSE st
        st2 == count_newlines_checked(st1, range)
        newlines == count_newlines(st1, range)
        st3 == IF st2.needs_indent
               THEN [Call("write_newlines", <<st2, newlines>>) EXCEPT !.needs_indent = FALSE]
               ELSE st2
        st4 == push_tag(st3, e)
        p == peek(st4)
    IN  IF ~IsSome(p)
        THEN Panic(st4, "unreachable: expected an End(BlockQuote) event")
        ELSE LET n == Unwrap(p)
             IN  IF n.type = "End" /\ n.tag = "BlockQuote"
                 THEN Call("write_newlines", <<
                          push_indentation(Call("write_str", <<st4, <<">">>>>), <<">">>),
                          CountChar(TrimEnd(Slice(st.input, e.start, e.end)), "\n")>>)
                 ELSE IF n.type = "Start" /\ n.tag = "BlockQuote"
                 THEN Call("write_newlines", <<
                          push_indentation(
                              Call("write_str", <<slice_checked(st4, e.start, n.start), <<">">>>>),
                              <<">">>),
                          CountChar(Slice(st.input, e.start, n.start), "\n")>>)
                 ELSE LET st5 == slice_checked(st4, e.start, n.start)
                          between == CountChar(Slice(st.input, e.start, n.start), "\n")
                          st6 == push_indentation(st5, <<">", " ">>)
                      IN  IF between > 0
                          THEN Call("write_newlines", <<Call("write_str", <<st6, <<">">>>>), between>>)
                          ELSE Call("write_str", <<st6, <<">", " ">>>>)

\* The backtick character, as a token.
Backtick == "BACKTICK"

FenceChars == {Backtick, "~"}

start_tag_CodeBlock(st, e) ==
    LET range == RangeOf(e)
        st1 == count_newlines_checked(st, range)
        newlines == count_newlines(st, range)
        indentation == <<" ", " ", " ", " ">>
        fenced ==
            LET a == Call("rewrite_marker", <<Call("write_newlines_before_code_block", <<st1, newlines>>), range>>)
                b == [a EXCEPT !.needs_indent = TRUE]
                exclude_fence == TrimStartMatches(Slice(st.input, e.start, e.end), FenceChars)
                starts_with_space == exclude_fence # <<>> /\ IsWhitespace(exclude_fence[1])
                info_string == Trim(OrDefault(FirstLine(exclude_fence), e.text))
            IN  IF e.text = <<>> THEN Call("write_str", <<b, <<"\n">>>>)
                ELSE IF starts_with_space THEN Call("write_str", <<b, <<" ">> \o info_string \o <<"\n">>>>)
                ELSE Call("write_str", <<b, info_string \o <<"\n">>>>)
        indented ==
            LET a == push_indentation(st1, indentation)
                b == write_all(a, [i \in 1..newlines |-> <<"\n">>])
                c == IF PeekIs(a, "End", {"CodeBlock"}) THEN a
                     ELSE IF indentation_needed(b) THEN Call("write_indentation", <<b, FALSE>>)
                     ELSE Call("write_str", <<b, indentation>>)
            IN  [c EXCEPT !.needs_indent = FALSE]
        st2 == IF e.kind = "Fenced" THEN fenced ELSE indented
    IN  push_tag(Call("new_external_formatted", <<st2, "CodeBlock">>), e)

start_tag_List(st, e) == push_tag(Call("newlines_if_needs_indent", <<st, RangeOf(e)>>), e)

never_empty_list_item(st, e) == FALSE

\* The match on self.events.peek() that decides whether the item is empty.
is_empty_list_item(st, e) ==
    LET p == peek(st)
    IN  IF ~IsSome(p) THEN FALSE
        ELSE IF Unwrap(p).type = "End" /\ Unwrap(p).tag = "Item" THEN TRUE
        ELSE CountChar(Slice(st.input, e.start, Unwrap(p).start), "\n") > 0

start_tag_Item(st, e) ==
    LET range == RangeOf(e)
        st1 == count_newlines_checked(st, range)
        newlines == count_newlines(st, range)
        st2 == IF st1.needs_indent /\ newlines > 0 THEN Call("write_newlines", <<st1, newlines>>) ELSE st1
        p == peek(st2)
        st3 == IF IsSome(p) /\ ~(Unwrap(p).type = "End" /\ Unwrap(p).tag = "Item")
               THEN slice_checked(st2, e.start, Unwrap(p).start) ELSE st2
        empty_list_item == is_empty_list_item(st2, e)
        st4 == [st3 EXCEPT !.needs_indent = empty_list_item]
        marker == list_marker(st.config, Slice(st.input, e.start, e.end))
    IN  IF ~IsSome(marker) THEN Panic(st4, "Should be able to parse a list marker")
        ELSE LET m == Unwrap(marker)
                 zero_padding == ListMarker_zero_padding(m)
                 text == (IF m.ordered THEN zero_padding \o NatToString(m.number) ELSE <<>>)
                            \o <<m.marker>>
                            \o (IF empty_list_item THEN <<>> ELSE <<" ">>)
                 st5 == IF ListMarker_zero_padding_panics(m)
                        THEN Panic(st4, "slice end out of range")
                        ELSE Call("write_str", <<st4, text>>)
                 st6 == push_tag(st5, e)
                 indentation ==
                    IF PeekIs(st6, "Start", {"CodeBlock", "HtmlBlock", "TableHead"})
                    THEN ListMarker_indentation(m)
                    ELSE OrDefault(st.config.fixed_indentation, ListMarker_indentation(m))
             IN  push_indentation(st6, indentation)

start_tag_FootnoteDefinition(st, e) ==
    LET st1 == count_newlines_checked(st, RangeOf(e))
    IN  Call("write_str", <<Call("write_newlines", <<st1, count_newlines(st, RangeOf(e))>>),
                  <<"[", "^">> \o e.text \o <<"]", ":", " ">>>>)

start_tag_Link(st, e) ==
    LET st1 == Call("newlines_if_needs_indent_and_some", <<st, RangeOf(e)>>)
        opener == IF e.kind \in {"Email", "Autolink"} THEN <<"<">> ELSE <<"[">>
        st2 == push_tag(Call("write_str", <<st1, opener>>), e)
    IN  IF st2.events # <<>> /\ Head(st2.events).type \in {"Text", "SoftBreak"}
        THEN [st2 EXCEPT !.trim_link_or_image_start = TRUE]
        ELSE st2

start_tag_Image(st, e) ==
    LET st1 == Call("newlines_if_needs_indent_and_some", <<st, RangeOf(e)>>)
        st2 == push_tag(Call("write_str", <<st1, <<"!", "[">>>>), e)
    IN  IF st2.events # <<>> /\ Head(st2.events).type \in {"Text", "SoftBreak"}
        THEN [st2 EXCEPT !.trim_link_or_image_start = TRUE]
        ELSE st2

start_tag_Table(st, e) ==
    LET st1 == Call("newlines_if_needs_indent", <<st, RangeOf(e)>>)
        st2 == [st1 EXCEPT !.table_state = Some(TableState_new(e.text))]
    IN  push_tag(push_indentation(Call("write_str", <<st2, <<"|">>>>), <<"|">>), e)

start_tag_TableRow(st, e) ==
    LET st1 == push_tag(st, e)
    IN  IF IsSome(st1.table_state)
        THEN [st1 EXCEPT !.table_state = Some(TableState_push_row(Unwrap(@)))]
        ELSE st1

start_tag_TableCell(st, e) ==
    IF ~PeekIs(st, "End", {"TableCell"}) THEN st
    ELSE IF IsSome(st.table_state)
    THEN [st EXCEPT !.table_state = Some(TableState_write(Unwrap(@), <<>>))]
    ELSE st

start_tag_HtmlBlock(st, e) ==
    LET st1 == count_newlines_checked(st, RangeOf(e))
        newlines == count_newlines(st, RangeOf(e))
        st2 == Call("flush_external_formatted", <<st1, FALSE>>)
        st3 == write_all(st2, [i \in 1..newlines |-> <<"\n">>])
    IN  Call("new_external_formatted", <<st3, "HtmlBlock">>)

start_tag(st, e) ==
    CASE e.tag = "Paragraph" -> start_tag_Paragraph(st, e)
      [] e.tag = "Heading" -> start_tag_Heading(st, e)
      [] e.tag = "BlockQuote" -> start_tag_BlockQuote(st, e)
      [] e.tag = "CodeBlock" -> start_tag_CodeBlock(st, e)
      [] e.tag = "List" -> start_tag_List(st, e)
      [] e.tag = "Item" -> start_tag_Item(st, e)
      [] e.tag = "FootnoteDefinition" -> start_tag_FootnoteDefinition(st, e)
      [] e.tag = "Emphasis" -> Call("write_emphasis_marker", <<st, RangeOf(e)>>)
      [] e.tag = "Strong" -> Call("write_strong_marker", <<st, RangeOf(e)>>)
      [] e.tag = "Strikethrough" -> Call("rewrite_marker", <<st, RangeOf(e)>>)
      [] e.tag = "Link" -> start_tag_Link(st, e)
      [] e.tag = "Image" -> start_tag_Image(st, e)
      [] e.tag = "Table" -> start_tag_Table(st, e)
      [] e.tag = "TableHead" -> push_tag(st, e)
      [] e.tag = "TableRow" -> start_tag_TableRow(st, e)
      [] e.tag = "TableCell" -> start_tag_TableCell(st, e)
      [] e.tag = "HtmlBlock" -> start_tag_HtmlBlock(st, e)
      [] e.tag = "MetadataBlock" -> Call("write_metadata_block_separator", <<st, e.kind, RangeOf(e)>>)

\* ------------------------------------------------------------------
\* links.rs
\* ------------------------------------------------------------------
\* find_text_within_last_set_of_balance_bracket from the 0-based index `index`
\* on; `halt` is the character of the halt condition, if any.
RECURSIVE find_brackets_from(_, _, _, _, _, _, _, _)
find_brackets_from(label, opener, closer, halt, index, stack, was_last_escape, found) ==
    IF index >= Len(label) THEN found
    ELSE LET char == label[index + 1]
             pushed == IF ~was_last_escape /\ char = opener
                       THEN Append(stack, index) ELSE stack
             closes == ~was_last_escape /\ char = closer
             popped == IF closes /\ pushed # <<>>
                       THEN SubSeq(pushed, 1, Len(pushed) - 1) ELSE pushed
             found1 == IF closes /\ pushed # <<>>
                       THEN [start |-> pushed[Len(pushed)], end |-> index] ELSE found
             halts == /\ closes /\ popped = <<>> /\ IsSome(halt)
                      /\ index + 1 < Len(label) /\ label[index + 2] = Unwrap(halt)
         IN  IF halts THEN found1
             ELSE find_brackets_from(label, opener, closer, halt, index + 1, popped,
                                     char = "\\", found1)

find_text_within_last_set_of_balance_bracket(label, opener, closer, halt) ==
    LET found == find_brackets_from(label, opener, closer, halt, 0, <<>>, FALSE,
                                    [start |-> 0, end |-> Len(label)])
    IN  [start |-> found.start, end |-> found.end + 1]

\* find_reference_link_label slices input[start + 1..end - 1]
find_reference_link_label_panics(input) ==
    LET r == find_text_within_last_set_of_balance_bracket(input, "[", "]", NoneOpt)
    IN  r.start + 1 > r.end - 1 \/ r.end - 1 > Len(input)

find_reference_link_label(input) ==
    LET r == find_text_within_last_set_of_balance_bracket(input, "[", "]", NoneOpt)
    IN  Trim(Slice(input, r.start + 1, r.end - 1))

link_title_start(link) ==
    LET last == link[Len(link)]
        opener == IF last = ")" THEN "(" ELSE last
        hits == {i \in 1..(Len(link) - 1) :
                    link[i] = opener /\ ~(i > 1 /\ link[i - 1] = "\\")}
    IN  IF hits = {} THEN 0 ELSE Max(hits) - 1

trim_angle_brackes(url) ==
    IF StartsWith(url, "<") /\ EndsWith(url, ">")
    THEN Trim(SubSeq(url, 2, Len(url) - 1))
    ELSE Trim(url)

\* split_inline_url_from_title, for a non-empty input (link_title_start
\* expects a last character): the url and the optional (title, quote).
split_inline_url_from_title(input, has_title) ==
    LET has_space == \E i \in 1..Len(input) : IsWhitespace(input[i])
        only_link == ~has_space /\ has_title
        link_start == link_title_start(input)
    IN  IF only_link \/ ~has_title \/ link_start = 0
        THEN [url |-> trim_angle_brackes(input), title |-> NoneOpt]
        ELSE LET url == Trim(SubSeq(input, 1, link_start))
                 title_with_quotes == Trim(SubSeq(input, link_start + 1, Len(input)))
             IN  [url |-> trim_angle_brackes(url),
                  title |-> Some([title |-> SubSeq(title_with_quotes, 2,
                                                   Len(title_with_quotes) - 1),
                                  quote |-> title_with_quotes[Len(title_with_quotes)]])]

\* find_inline_url_and_title slices input[end + 1..input.len() - 1]
find_inline_url_and_title_panics(input) ==
    LET r == find_text_within_last_set_of_balance_bracket(input, "[", "]", Some("("))
    IN  input = <<>> \/ r.end + 1 > Len(input) - 1

find_inline_url_and_title(input) ==
    LET r == find_text_within_last_set_of_balance_bracket(input, "[", "]", Some("("))
        inline_url == Trim(Slice(input, r.end + 1, Len(input) - 1))
    IN  IF inline_url = <<>> THEN [url |-> <<>>, title |-> NoneOpt]
        ELSE split_inline_url_from_title(inline_url,
                 inline_url[Len(inline_url)] \in {"\"", "'", ")"})

write_inline_link(st, url, title) ==
    LET u == format_link_url(url, FALSE)
    IN  IF ~IsSome(title) THEN Call("write_str", <<st, <<"]", "(">> \o u \o <<")">>>>)
        ELSE IF Unwrap(title).quote = ")"
        THEN Call("write_str", <<st, <<"]", "(">> \o u \o <<" ", "(">> \o Unwrap(title).title
                                \o <<")", ")">>>>)
        ELSE Call("write_str", <<st, <<"]", "(">> \o u \o <<" ", Unwrap(title).quote>>
                                \o Unwrap(title).title \o <<Unwrap(title).quote, ")">>>>)

\* ------------------------------------------------------------------
\* end_tag
\* ------------------------------------------------------------------
\* self.nested_context.pop()
pop_nested_context(st) ==
    [st EXCEPT !.popped_tag = LastTag(st),
               !.nested_context = SubSeq(@, 1, Len(@) - (IF @ = <<>> THEN 0 ELSE 1))]

\* No check of the popped tag at all.
popped_unchecked(st, e) == st

\* debug_assert_eq!(popped_tag.unwrap().to_end(), tag): compiled in only with
\* debug assertions, the unwrap included.
debug_assert_popped(st, e) ==
    IF debug_assertions
       /\ (~IsSome(st.popped_tag) \/ to_end(Unwrap(st.popped_tag)) # TagEndOf(e))
    THEN Panic(st, "assertion failed: popped_tag.to_end() == tag")
    ELSE st

\* An End that leaves the entry on the stack.
pop_indentation_skipped(st, expect) ==
    IF st.indentation = <<>> /\ expect # "" THEN Panic(st, expect) ELSE st

\* self.indentation.pop(): the state, or a panic where the code expects Some.
pop_indentation(st, expect) ==
    IF st.indentation = <<>>
    THEN IF expect # "" THEN Panic(st, expect) ELSE st
    ELSE [st EXCEPT !.indentation = SubSeq(@, 1, Len(@) - 1)]

end_tag_Paragraph(st, e) ==
    LET st1 == pop_nested_context(st)
        st2 == IF debug_assertions
                  /\ ~(IsSome(st1.popped_tag) /\ Unwrap(st1.popped_tag).tag = "Paragraph")
               THEN Panic(st1, "assertion failed: popped_tag == Some(Tag::Paragraph)")
               ELSE st1
    IN  Call("flush_external_formatted", <<st2, TRUE>>)

\* rewirte_header_classes
RECURSIVE rewirte_header_classes(_)
rewirte_header_classes(classes) ==
    IF classes = <<>> THEN <<>>
    ELSE <<" ", ".">> \o Head(classes) \o rewirte_header_classes(Tail(classes))

end_tag_Heading(st, e) ==
    IF ~IsSome(st.header_id_and_classes) THEN Panic(st, "Should have pushed a header tag")
    ELSE LET h == Unwrap(st.header_id_and_classes)
             st1 == [st EXCEPT !.header_id_and_classes = NoneOpt]
             classes == rewirte_header_classes(h.classes)
             st2 == IF IsSome(h.id) /\ h.classes # <<>>
                    THEN Call("write_str", <<st1, <<" ", "{", "#">> \o Unwrap(h.id) \o classes \o <<"}">>>>)
                    ELSE IF IsSome(h.id)
                    THEN Call("write_str", <<st1, <<" ", "{", "#">> \o Unwrap(h.id) \o <<"}">>>>)
                    ELSE IF h.classes # <<>>
                    THEN Call("write_str", <<st1, <<" ", "{">> \o Trim(classes) \o <<"}">>>>)
                    ELSE st1
         IN  IF IsSome(st2.setext_header)
             THEN Call("write_str", <<Call("write_newlines", <<[st2 EXCEPT !.setext_header = NoneOpt], 1>>),
                            Unwrap(st2.setext_header)>>)
             ELSE st2

end_tag_BlockQuote(st, e) ==
    LET st1 == count_newlines_checked(st, RangeOf(e))
        newlines == count_newlines(st, RangeOf(e))
        st2 == IF st1.needs_indent /\ newlines > 0
               THEN Call("write_newlines", <<
                        IF st1.indentation # <<>> THEN set_last_indentation(st1, <<">">>)
                        ELSE st1,
                        newlines>>)
               ELSE st1
        st3 == debug_assert_popped(pop_nested_context(st2), e)
        st4 == pop_indentation(st3, "we pushed a blockquote marker in start_tag")
    IN  IF st3.indentation # <<>> /\ st4.indentation # <<>>
           /\ st4.indentation[Len(st4.indentation)] = <<">">>
        THEN set_last_indentation(st4, st3.indentation[Len(st3.indentation)])
        ELSE st4

end_tag_CodeBlock(st, e) ==
    LET empty_code_block ==
            IsSome(st.external_formatter) /\ Unwrap(st.external_formatter).buffer = <<>>
        st1 == pop_nested_context(Call("flush_external_formatted", <<st, TRUE>>))
    IN  IF ~(IsSome(st1.popped_tag) /\ Unwrap(st1.popped_tag).tag = "CodeBlock")
        THEN Panic(st1, "unreachable: Should have pushed a code block start tag")
        ELSE IF Unwrap(st1.popped_tag).kind = "Fenced"
        THEN Call("rewrite_marker", <<Call("write_newline_after_code_block", <<st1, empty_code_block>>), RangeOf(e)>>)
        ELSE LET st2 == pop_indentation(st1, "we added 4 spaces in start_tag")
             IN  IF debug_assertions /\ st1.indentation # <<>>
                    /\ st1.indentation[Len(st1.indentation)] # <<" ", " ", " ", " ">>
                 THEN Panic(st2, "assertion failed: popped_indentation == 4 spaces")
                 ELSE st2

DontAbsorbComment == <<"<!-- Don't absorb code block into list -->">>
ConsiderFenceComment == <<"<!-- Consider a fenced code block instead -->">>

end_tag_List(st, e) ==
    LET st1 == debug_assert_popped(pop_nested_context(st), e)
    IN  IF /\ st1.events # <<>>
           /\ Head(st1.events).type = "Start" /\ Head(st1.events).tag = "CodeBlock"
           /\ Head(st1.events).kind = "Indented"
        THEN Call("write_str", <<Call("write_str", <<Call("write_newlines", <<st1, 1>>), DontAbsorbComment \o <<"\n">>>>),
                       ConsiderFenceComment>>)
        ELSE st1

end_tag_Item(st, e) ==
    LET st1 == count_newlines_checked(st, RangeOf(e))
        newlines == count_newlines(st, RangeOf(e))
        st2 == IF st1.needs_indent /\ newlines > 0
               THEN Call("write_newlines_no_trailing_whitespace", <<st1, newlines>>) ELSE st1
        st3 == debug_assert_popped(pop_nested_context(st2), e)
        st4 == IF debug_assertions /\ st3.indentation = <<>>
               THEN Panic(st3, "assertion failed: popped_indentation.is_some()")
               ELSE pop_indentation(st3, "")
    IN  [st4 EXCEPT !.needs_indent = PeekIs(st4, "Start", {"Item"})]

end_tag_Link_or_Image_bracket(st, e) ==
    Call("write_str", <<debug_assert_popped(pop_nested_context(st), e), <<"]">>>>)

end_tag_Link_or_Image(st, e) ==
    LET st1 == pop_nested_context(st)
    IN  IF ~IsSome(st1.popped_tag) THEN Panic(st1, "Should have pushed a start tag.")
        ELSE LET popped_tag == Unwrap(st1.popped_tag)
                 st2 == debug_assert_popped(st1, e)
                 text == Slice(st.input, e.start, e.end)
                 link_type == popped_tag.kind
             IN  IF st2.panic # "" THEN st2
                 ELSE IF popped_tag.tag \notin {"Link", "Image"}
                 THEN Panic(st2, "unreachable: Should reach the end of a corresponding tag.")
                 ELSE IF link_type = "Inline"
                 THEN IF find_inline_url_and_title_panics(text)
                      THEN Panic(st2, "slice index out of range")
                      ELSE LET r == find_inline_url_and_title(text)
                           IN  Call("write_inline_link", <<st2, r.url, r.title>>)
                 ELSE IF link_type \in {"Reference", "ReferenceUnknown"}
                 THEN IF find_reference_link_label_panics(text)
                      THEN Panic(st2, "slice index out of range")
                      ELSE Call("write_str", <<st2, <<"]", "[">> \o find_reference_link_label(text)
                                            \o <<"]">>>>)
                 ELSE IF link_type \in {"Collapsed", "CollapsedUnknown"}
                 THEN Call("write_str", <<st2, <<"]", "[", "]">>>>)
                 ELSE IF link_type \in {"Shortcut", "ShortcutUnknown"}
                 THEN Call("write_str", <<st2, <<"]">>>>)
                 ELSE Call("write_str", <<st2, <<">">>>>)

table_not_rendered(st, e) ==
    pop_indentation(debug_assert_popped(
        pop_nested_context([st EXCEPT !.table_state = NoneOpt]), e), "we added | in start_tag")

end_tag_Table(st, e) ==
    LET st1 == debug_assert_popped(pop_nested_context(st), e)
        st2 == IF IsSome(st1.table_state)
               THEN Call("join_with_indentation", <<[st1 EXCEPT !.table_state = NoneOpt],
                        TableState_format(Unwrap(st1.table_state)), FALSE, TRUE>>)
               ELSE st1
        st3 == pop_indentation(st2, "we added | in start_tag")
    IN  IF debug_assertions /\ st2.indentation # <<>>
           /\ st2.indentation[Len(st2.indentation)] # <<"|">>
        THEN Panic(st3, "assertion failed: popped_indentation == |")
        ELSE st3

end_tag_TableCell(st, e) ==
    IF IsSome(st.table_state)
    THEN [st EXCEPT !.table_state = Some(TableState_increment_col_index(Unwrap(@)))]
    ELSE st

end_tag(st, e) ==
    CASE e.tag = "Paragraph" -> end_tag_Paragraph(st, e)
      [] e.tag = "Heading" -> end_tag_Heading(st, e)
      [] e.tag = "BlockQuote" -> end_tag_BlockQuote(st, e)
      [] e.tag = "CodeBlock" -> end_tag_CodeBlock(st, e)
      [] e.tag = "List" -> end_tag_List(st, e)
      [] e.tag = "Item" -> end_tag_Item(st, e)
      [] e.tag = "FootnoteDefinition" -> st
      [] e.tag = "Emphasis" -> Call("write_emphasis_marker", <<st, RangeOf(e)>>)
      [] e.tag = "Strong" -> Call("write_strong_marker", <<st, RangeOf(e)>>)
      [] e.tag = "Strikethrough" -> Call("rewrite_marker", <<st, RangeOf(e)>>)
      [] e.tag \in {"Link", "Image"} -> end_tag_Link_or_Image(st, e)
      [] e.tag = "Table" -> end_tag_Table(st, e)
      [] e.tag \in {"TableRow", "TableHead"} -> debug_assert_popped(pop_nested_context(st), e)
      [] e.tag = "TableCell" -> end_tag_TableCell(st, e)
      [] e.tag = "HtmlBlock" -> Call("check_needs_indent", <<Call("flush_external_formatted", <<st, TRUE>>), e>>)
      [] e.tag = "MetadataBlock" -> Call("write_metadata_block_separator", <<st, e.kind, RangeOf(e)>>)

\* ------------------------------------------------------------------
\* format_one_event, format
\* ------------------------------------------------------------------
\* escape.rs: needs_escape only ever answers true for a text that follows a
\* soft break; the texts handed to the engine here never do.
needs_escape(st, text) == FALSE

\* The index of the last non-whitespace character of input[..end], or 0.
last_non_whitespace(input, end) ==
    LET idx == {i \in 1..end : ~IsWhitespace(input[i])}
    IN  IF idx = {} THEN 0 ELSE Max(idx) - 1

\* `written` records that the output of event e begins (nothing is recorded
\* once the run has panicked).
log_event(st, e) ==
    IF st.panic # "" THEN st
    ELSE [st EXCEPT !.written = Append(@, [what |-> e.type, start |-> e.start])]

format_Text(st, e) ==
    IF IsSome(st.external_formatter) /\ ExternalContext(st) # "Paragraph"
    THEN Call("write_str", <<st, e.text>>)
    ELSE LET range == RangeOf(e)
             starts_with_escape == EndsWith(Slice(st.input, 0, e.start), "\\")
             st1 == count_newlines_checked(st, range)
             newlines == count_newlines(st, range)
             text_from_source == Slice(st.input, e.start, e.end)
             text0 == IF text_from_source = <<>> THEN e.text ELSE text_from_source
             trims == in_link_or_image(st1) /\ st1.trim_link_or_image_start
             text1 == IF trims THEN TrimStart(text0) ELSE text0
             st2 == IF trims THEN [st1 EXCEPT !.trim_link_or_image_start = FALSE] ELSE st1
             text == IF PeekIs(st2, "End", {"Link", "Image"}) THEN TrimEnd(text1) ELSE text1
             st3 == IF st2.needs_indent THEN Call("write_newlines", <<st2, newlines>>) ELSE st2
             st4 == IF starts_with_escape \/ needs_escape(st3, text)
                    THEN Call("write_str", <<st3, <<"\\">> \o text>>)
                    ELSE Call("write_str", <<st3, text>>)
         IN  [Call("check_needs_indent", <<st4, e>>) EXCEPT !.last_position = e.end]

format_DisplayMath(st, e) ==
    LET st1 == Call("write_str", <<Call("flush_external_formatted", <<st, FALSE>>), <<"$", "$">>>>)
        st2 == Call("write_str", <<Call("new_external_formatted", <<st1, "DisplayMath">>), e.text>>)
        st3 == Call("write_indentation_if_needed", <<Call("flush_external_formatted", <<st2, FALSE>>)>>)
    IN  Call("write_str", <<st3, <<"$", "$">>>>)

format_SoftBreak(st, e) ==
    LET st0 == [st EXCEPT !.last_position = e.end]
    IN  IF in_link_or_image(st0)
        THEN IF st0.trim_link_or_image_start \/ PeekIs(st0, "End", {"Link", "Image"})
             THEN [st0 EXCEPT !.trim_link_or_image_start = FALSE]
             ELSE Call("write_str", <<st0, <<" ">>>>)
        ELSE LET st1 == Call("write_str", <<st0, Slice(st.input, e.start, e.end)>>)
                 st2 == IF ~in_paragraph(st1) THEN Call("write_indentation", <<st1, FALSE>>) ELSE st1
             IN  [st2 EXCEPT !.last_was_softbreak = TRUE]

format_InlineHtml(st, e) ==
    LET st1 == count_newlines_checked(st, RangeOf(e))
        newlines == count_newlines(st, RangeOf(e))
        st2 == IF st1.needs_indent THEN Call("write_newlines", <<st1, newlines>>) ELSE st1
    IN  Call("check_needs_indent", <<
            Call("write_str", <<st2, TrimEndMatches(Slice(st.input, e.start, e.end), {"\n"})>>), e>>)

format_Rule(st, e) ==
    LET st1 == count_newlines_checked(st, RangeOf(e))
        st2 == Call("write_newlines", <<st1, count_newlines(st, RangeOf(e))>>)
    IN  Call("check_needs_indent", <<Call("write_str", <<st2, Slice(st.input, e.start, e.end)>>), e>>)

\* format_one_event; self.last_position is assigned last, from the local
\* last_position the arms may have overwritten.
format_one_event(st, e) ==
    LET keep(st1, last_position) == [st1 EXCEPT !.last_position = last_position]
        dflt == last_non_whitespace(st.input, e.end)
    IN  CASE e.type = "Start" ->
                keep(start_tag(log_event(Call("rewrite_reference_link_definitions", <<st, RangeOf(e)>>), e),
                               e),
                     e.start)
          [] e.type = "End" ->
                keep(Call("check_needs_indent", <<end_tag(log_event(st, e), e), e>>), dflt)
          [] e.type = "Text" ->
                IF IsSome(st.external_formatter) /\ ExternalContext(st) # "Paragraph"
                THEN keep(format_Text(log_event(st, e), e), dflt)
                ELSE format_Text(log_event(st, e), e)
          [] e.type = "DisplayMath" -> keep(format_DisplayMath(log_event(st, e), e), dflt)
          [] e.type \in {"Code", "Html", "HardBreak"} ->
                keep(Call("write_str", <<log_event(st, e), Slice(st.input, e.start, e.end)>>), dflt)
          [] e.type = "SoftBreak" -> format_SoftBreak(log_event(st, e), e)
          [] e.type \in {"InlineHtml", "InlineMath"} ->
                keep(format_InlineHtml(log_event(st, e), e), dflt)
          [] e.type = "Rule" -> keep(format_Rule(log_event(st, e), e), dflt)
          [] e.type = "FootnoteReference" ->
                keep(Call("write_str", <<log_event(st, e), <<"[", "^">> \o e.text \o <<"]">>>>), dflt)
          [] e.type = "TaskListMarker" ->
                keep(Call("write_str", <<log_event(st, e),
                               IF e.kind = "done" THEN <<"[", "x", "]", " ">>
                               ELSE <<"[", " ", "]", " ">>>>), dflt)

\* A panic unwinds format() and an Err returns from it: the FormatState is
\* as the step found it, with the panic message or the Err and what had been
\* written up to there recorded.
unwind(before, st) ==
    IF st.panic # "" \/ st.error
    THEN [before EXCEPT !.panic = st.panic, !.error = st.error,
                        !.rejections = st.rejections, !.late = st.late,
                        !.newline_calls = st.newline_calls,
                        !.written = st.written, !.dropped = st.dropped]
    ELSE st

\* Where format() is after a step that left `st`.
position(st, otherwise) ==
    IF st.panic # "" THEN "panic" ELSE IF st.error THEN "error" ELSE otherwise

\* The methods of FormatState that are called from more than one place.
Call(op, a) ==
    CASE op = "unwind" ->
            unwind(a[1], a[2])
      [] op = "write_str" ->
            write_str(a[1], a[2])
      [] op = "write_indentation" ->
            write_indentation(a[1], a[2])
      [] op = "write_newlines_inner" ->
            write_newlines_inner(a[1], a[2], a[3])
      [] op = "write_newlines" ->
            write_newlines(a[1], a[2])
      [] op = "write_newlines_no_trailing_whitespace" ->
            write_newlines_no_trailing_whitespace(a[1], a[2])
      [] op = "write_indentation_if_needed" ->
            write_indentation_if_needed(a[1])
      [] op = "write_newlines_before_code_block" ->
            write_newlines_before_code_block(a[1], a[2])
      [] op = "write_newline_after_code_block" ->
            write_newline_after_code_block(a[1], a[2])
      [] op = "write_reference_link_definition_inner" ->
            write_reference_link_definition_inner(a[1], a[2], a[3], a[4])
      [] op = "write_one_reference_link" ->
            write_one_reference_link(a[1], a[2])
      [] op = "rewrite_reference_link_definitions" ->
            rewrite_reference_link_definitions(a[1], a[2])
      [] op = "rewrite_final_reference_links" ->
            rewrite_final_reference_links(a[1])
      [] op = "join_with_indentation" ->
            join_with_indentation(a[1], a[2], a[3], a[4])
      [] op = "flush_external_formatted" ->
            flush_external_formatted(a[1], a[2])
      [] op = "new_external_formatted" ->
            new_external_formatted(a[1], a[2])
      [] op = "write_metadata_block_separator" ->
            write_metadata_block_separator(a[1], a[2], a[3])
      [] op = "rewrite_marker_with_limit" ->
            rewrite_marker_with_limit(a[1], a[2], a[3])
      [] op = "rewrite_marker" ->
            rewrite_marker(a[1], a[2])
      [] op = "write_emphasis_marker" ->
            write_emphasis_marker(a[1], a[2])
      [] op = "write_strong_marker" ->
            write_strong_marker(a[1], a[2])
      [] op = "newlines_if_needs_indent" ->
            newlines_if_needs_indent(a[1], a[2])
      [] op = "newlines_if_needs_indent_and_some" ->
            newlines_if_needs_indent_and_some(a[1], a[2])
      [] op = "write_inline_link" ->
            write_inline_link(a[1], a[2], a[3])
      [] op = "check_needs_indent" ->
            check_needs_indent(a[1], a[2])
      [] op = "format_one_event" ->
            format_one_event(a[1], a[2])

\* ------------------------------------------------------------------
\* The parser, for documents made of one-line blocks
\* ------------------------------------------------------------------
\* The event stream and reference definitions Parser::new_with_broken_link_callback
\* yields for a document whose blocks are: a one-line paragraph, a thematic
\* break, a one-line link reference definition `[label]: dest`, a fenced code
\* block with one line of content and, as the first block, a YAML metadata
\* block with one line of content; and one ordered list of a single tight
\* item, `N. text`, whose List and Item events span the line. `ok` is FALSE
\* for any other document. The loose-list adapter leaves a list of a single
\* tight item as it is.
\* The lines of s: start offset, text without the line ending, and whether
\* a line ending follows.
RECURSIVE SplitLines(_, _)
SplitLines(t, offset) ==
    IF t = <<>> THEN <<>>
    ELSE LET nls == {i \in 1..Len(t) : t[i] = "\n"}
         IN  IF nls = {} THEN <<[start |-> offset, text |-> t, nl |-> 0]>>
             ELSE <<[start |-> offset, text |-> SubSeq(t, 1, Min(nls) - 1), nl |-> 1]>>
                    \o SplitLines(SubSeq(t, Min(nls) + 1, Len(t)), offset + Min(nls))

LineEnd(l) == l.start + Len(l.text) + l.nl

IsRuleLine(t) == Len(t) >= 3 /\ t[1] \in {"*", "-", "_"} /\ \A i \in 1..Len(t) : t[i] = t[1]

IsFenceLine(t) == Len(t) >= 3 /\ \A i \in 1..3 : t[i] = Backtick

YamlFence == <<"-", "-", "-">>

Letters == {"a", "c", "k", "l", "m", "p", "u"}

IsWordLine(t) == t # <<>> /\ \A i \in 1..Len(t) : t[i] \in Letters

\* `[label]: dest` with a label and a destination of letters.
IsDefinitionLine(t) ==
    /\ Len(t) >= 6 /\ t[1] = "["
    /\ \E k \in 3..(Len(t) - 3) :
          /\ t[k] = "]" /\ t[k + 1] = ":" /\ t[k + 2] = " "
          /\ IsWordLine(SubSeq(t, 2, k - 1))
          /\ IsWordLine(SubSeq(t, k + 3, Len(t)))

DefinitionOf(l) ==
    LET t == l.text
        k == CHOOSE k \in 3..(Len(t) - 3) : t[k] = "]"
    IN  ReferenceLinkDefinition(SubSeq(t, 2, k - 1), SubSeq(t, k + 3, Len(t)), NoneOpt,
                                l.start, l.start + Len(t))

\* `N. text` with a one-digit number and a text of letters.
IsOrderedItemLine(t) ==
    Len(t) >= 4 /\ t[1] \in {"1", "2"} /\ t[2] = "." /\ t[3] = " "
        /\ IsWordLine(SubSeq(t, 4, Len(t)))

Unsupported == [ok |-> FALSE, events |-> <<>>, defs |-> <<>>]

\* The blocks from line i on.
RECURSIVE ParseBlocks(_, _, _)
ParseBlocks(lines, i, acc) ==
    IF i > Len(lines) THEN acc
    ELSE LET l == lines[i]
             t == l.text
             blank_after == i = Len(lines) \/ lines[i + 1].text = <<>>
         IN  IF t = <<>> THEN ParseBlocks(lines, i + 1, acc)
             ELSE IF i = 1 /\ t = YamlFence
             THEN IF Len(lines) >= 3 /\ IsWordLine(lines[2].text) /\ lines[3].text = YamlFence
                     /\ (Len(lines) = 3 \/ lines[4].text = <<>>)
                  THEN ParseBlocks(lines, 4,
                        [acc EXCEPT !.events = @ \o
                            <<MkEvent("Start", "MetadataBlock", "YamlStyle", <<>>,
                                      0, LineEnd(lines[3])),
                              MkEvent("Text", None, "", lines[2].text \o <<"\n">>,
                                      lines[2].start, LineEnd(lines[2])),
                              MkEvent("End", "MetadataBlock", "YamlStyle", <<>>,
                                      0, LineEnd(lines[3]))>>])
                  ELSE Unsupported
             ELSE IF IsFenceLine(t)
             THEN IF Len(t) = 3 /\ Len(lines) >= i + 2 /\ IsWordLine(lines[i + 1].text)
                     /\ lines[i + 2].text = t
                     /\ (Len(lines) = i + 2 \/ lines[i + 3].text = <<>>)
                  THEN ParseBlocks(lines, i + 3,
                        [acc EXCEPT !.events = @ \o
                            <<MkEvent("Start", "CodeBlock", "Fenced", <<>>,
                                      l.start, LineEnd(lines[i + 2])),
                              MkEvent("Text", None, "", lines[i + 1].text \o <<"\n">>,
                                      lines[i + 1].start, LineEnd(lines[i + 1])),
                              MkEvent("End", "CodeBlock", "", <<>>,
                                      l.start, LineEnd(lines[i + 2]))>>])
                  ELSE Unsupported
             ELSE IF IsRuleLine(t) /\ t[1] = "*"
             THEN ParseBlocks(lines, i + 1,
                        [acc EXCEPT !.events =
                            Append(@, MkEvent("Rule", None, "", <<>>, l.start, LineEnd(l)))])
             ELSE IF IsDefinitionLine(t) /\ blank_after
             THEN ParseBlocks(lines, i + 1,
                        [acc EXCEPT !.defs =
                            IF \E d \in 1..Len(@) : @[d].label = DefinitionOf(l).label
                            THEN @ ELSE Append(@, DefinitionOf(l))])
             ELSE IF IsOrderedItemLine(t) /\ blank_after
             THEN IF \E j \in 1..Len(lines) : j # i /\ IsOrderedItemLine(lines[j].text)
                  THEN Unsupported
                  ELSE ParseBlocks(lines, i + 1,
                        [acc EXCEPT !.events = @ \o
                            <<MkEvent("Start", "List", t[1], <<>>, l.start, LineEnd(l)),
                              MkEvent("Start", "Item", "", <<>>, l.start, LineEnd(l)),
                              MkEvent("Text", None, "", SubSeq(t, 4, Len(t)),
                                      l.start + 3, l.start + Len(t)),
                              MkEvent("End", "Item", "", <<>>, l.start, LineEnd(l)),
                              MkEvent("End", "List", "ordered", <<>>, l.start, LineEnd(l))>>])
             ELSE IF IsWordLine(t) /\ blank_after
             THEN ParseBlocks(lines, i + 1,
                        [acc EXCEPT !.events = @ \o
                            <<MkEvent("Start", "Paragraph", "", <<>>, l.start, LineEnd(l)),
                              MkEvent("Text", None, "", t, l.start, l.start + Len(t)),
                              MkEvent("End", "Paragraph", "", <<>>, l.start, LineEnd(l))>>])
             ELSE Unsupported

Parse(input) ==
    ParseBlocks(SplitLines(input, 0), 1, [ok |-> TRUE, events |-> <<>>, defs |-> <<>>])

\* Insertion of a definition into a stack sorted by span start, descending.
RECURSIVE SortedInsert(_, _)
SortedInsert(stack, d) ==
    IF stack = <<>> THEN <<d>>
    ELSE IF d.start >= Head(stack).start THEN <<d>> \o stack
    ELSE <<Head(stack)>> \o SortedInsert(Tail(stack), d)

\* `.sorted_by(|(_, a), (_, b)| b.span.start.cmp(&a.span.start))`
RECURSIVE sorted_by_start_descending(_)
sorted_by_start_descending(defs) ==
    IF defs = <<>> THEN <<>>
    ELSE SortedInsert(sorted_by_start_descending(Tail(defs)), Head(defs))

\* An unsorted stack: the definitions in the order the parser lists them.
not_sorted(defs) == defs

\* The reference_links handed to FormatState::new.
reference_links_of(defs) == sorted_by_start_descending(defs)

\* ------------------------------------------------------------------
\* format(): the engine run on a parsed document
\* ------------------------------------------------------------------
\* No adapter is exercised while the engine runs.
AdapterIdle ==
    /\ upstream = <<>>
    /\ inner_done = FALSE
    /\ context = None
    /\ out_of_place_events = <<>>
    /\ emitted = <<>>
    /\ buffered = {}
    /\ apc = "idle"

\* One iteration of `while let Some((event, range)) = self.events.next()`.
FormatState_format_next ==
    /\ epc = "run"
    /\ fs.events # <<>>
    /\ fs' = Call("unwind",
                  <<fs, Call("format_one_event", <<[fs EXCEPT !.events = Tail(@)], Head(fs.events)>>)>>)
    /\ epc' = position(fs', "run")
    /\ UNCHANGED <<debug_assertions, adapterVars, unitVars, output, pass, first_output, handed, delivered>>

\* The end of format(): the events are exhausted.
FormatState_format_return ==
    /\ epc = "run"
    /\ fs.events = <<>>
    /\ LET trailing_newline == EndsWith(fs.input, "\n")
           st == IF debug_assertions /\ fs.nested_context # <<>>
                 THEN Panic(fs, "assertion failed: self.nested_context.is_empty()")
                 ELSE Call("rewrite_final_reference_links", <<fs>>)
       IN  /\ fs' = Call("unwind", <<fs, st>>)
           /\ epc' = position(fs', "done")
           /\ output' = IF fs'.panic # "" \/ fs'.error THEN output
                         ELSE fs'.rewrite_buffer \o (IF trailing_newline THEN <<"\n">> ELSE <<>>)
    /\ UNCHANGED <<debug_assertions, adapterVars, unitVars, pass, first_output, handed, delivered>>

\* MarkdownFormatter::format: parse, presort the definitions, create the
\* FormatState. The parser lists the definitions in the arbitrary order of a
\* hash map, hence a set of possible stacks.
Listings(n) ==
    {p \in [1..n -> 1..n] : \A i, j \in 1..n : i # j => p[i] # p[j]}

MarkdownFormatter_format(input) ==
    LET parsed == Parse(input)
        n == Len(parsed.defs)
    IN  {FormatState_new(input, Config_default, parsed.events,
                         reference_links_of([i \in 1..n |-> parsed.defs[listing[i]]])) :
            listing \in Listings(n)}

\* ------------------------------------------------------------------
\* Documents
\* ------------------------------------------------------------------
\* Most blocks in a document.
MaxBlocks == 3

ParagraphBlock == <<"p">>
RuleBlock == <<"*", "*", "*">>
DefinitionBlockL == <<"[", "l", "]", ":", " ", "u">>
DefinitionBlockM == <<"[", "m", "]", ":", " ", "u">>
MetadataBlock == YamlFence \o <<"\n", "k", "\n">> \o YamlFence
FencedBlock == <<Backtick, Backtick, Backtick, "\n", "c", "\n", Backtick, Backtick, Backtick>>
OrderedItemBlock == <<"2", ".", " ", "a">>

Blocks ==
    {ParagraphBlock, RuleBlock, DefinitionBlockL, DefinitionBlockM, MetadataBlock,
     FencedBlock, OrderedItemBlock}

\* Blocks separated by one blank line.
RECURSIVE JoinBlocks(_)
JoinBlocks(bs) ==
    IF Len(bs) = 1 THEN bs[1] ELSE bs[1] \o <<"\n", "\n">> \o JoinBlocks(Tail(bs))

\* A metadata block only opens a document; a label is defined once; there is
\* one list at most.
Documents ==
    {JoinBlocks(bs) \o tail :
        bs \in {b \in UNION {[1..n -> Blocks] : n \in 1..MaxBlocks} :
                  /\ \A i \in 2..Len(b) : b[i] # MetadataBlock
                  /\ \A i, j \in 1..Len(b) :
                        (i # j /\ b[i] = b[j]) =>
                            b[i] \notin {DefinitionBlockL, DefinitionBlockM,
                                         OrderedItemBlock}},
        tail \in {<<>>, <<"\n">>}}

EngineInit ==
    /\ debug_assertions \in BOOLEAN
    /\ AdapterIdle
    /\ UnitIdle
    /\ \E input \in Documents :
          /\ Parse(input).ok
          /\ fs \in MarkdownFormatter_format(input)
    /\ handed = fs.reference_links
    /\ delivered = fs.events
    /\ epc = "run"
    /\ output = <<>>
    /\ pass = 1
    /\ first_output = <<>>

\* The output of a finished run is formatted again.
Reformat ==
    /\ epc = "done"
    /\ pass = 1
    /\ Parse(output).ok
    /\ fs' \in MarkdownFormatter_format(output)
    /\ handed' = fs'.reference_links
    /\ delivered' = fs'.events
    /\ epc' = "run"
    /\ output' = <<>>
    /\ pass' = 2
    /\ first_output' = output
    /\ UNCHANGED <<debug_assertions, adapterVars, unitVars>>

EngineNext == FormatState_format_next \/ FormatState_format_return \/ Reformat

SpecEngine == EngineInit /\ [][EngineNext]_vars

\* ------------------------------------------------------------------
\* format(): the engine run on an arbitrary event stream
\* ------------------------------------------------------------------
\* FormatState::new takes any iterator of events: here every sequence of up
\* to MaxStream Start and End events of the kinds that push nested_context,
\* each spanning the whole input, with no reference definitions.
MaxStream == 3

StreamInput == <<"-", " ", "a">>

\* The payload of a tag of each kind.
StreamKind(tag) ==
    CASE tag = "CodeBlock" -> "Indented"
      [] tag = "List" -> "unordered"
      [] tag \in {"Link", "Image"} -> "Shortcut"
      [] OTHER -> ""

\* The tags start_tag pushes on nested_context and end_tag pops.
PushingTags ==
    {"Paragraph", "BlockQuote", "CodeBlock", "List", "Item", "Link", "Image",
     "Table", "TableHead", "TableRow"}

StreamEvents ==
    {MkEvent(type, tag, StreamKind(tag), <<>>, 0, Len(StreamInput)) :
        type \in {"Start", "End"}, tag \in PushingTags}

StreamInit ==
    /\ debug_assertions \in BOOLEAN
    /\ AdapterIdle
    /\ UnitIdle
    /\ \E iter \in SeqsUpTo(StreamEvents, MaxStream) :
          fs = FormatState_new(StreamInput, Config_default, iter, <<>>)
    /\ handed = fs.reference_links
    /\ delivered = fs.events
    /\ epc = "run"
    /\ output = <<>>
    /\ pass = 1
    /\ first_output = <<>>

StreamNext == FormatState_format_next \/ FormatState_format_return

SpecStream == StreamInit /\ [][StreamNext]_vars

\* ------------------------------------------------------------------
\* format(): the engine run on one block of each kind
\* ------------------------------------------------------------------
\* Each case is a source text with the events the parser yields for it;
\* `arg` keeps the case the run was started on.

\* ATX headings: the marker, the gap, the text, the optional closing
\* sequence and the end of the line.
HeadingNumbers == 1..6

Hashes(n) == [i \in 1..n |-> "#"]

HeadingLevelOf(n) ==
    CASE n = 1 -> "H1" [] n = 2 -> "H2" [] n = 3 -> "H3"
      [] n = 4 -> "H4" [] n = 5 -> "H5" [] n = 6 -> "H6"

HeadingGaps == {<<>>, <<" ">>, <<" ", " ">>}
HeadingTexts == {<<>>, <<"a">>, <<"#">>}
HeadingClosers == {<<>>, <<" ", "#">>}
LineEnds == {<<>>, <<"\n">>}

\* A text is separated from the marker; a text of `#` is told from a closing
\* sequence by the closing sequence that follows it.
HeadingCases ==
    {c \in [construct : {"Heading"}, level : HeadingNumbers, gap : HeadingGaps,
            text : HeadingTexts, closer : HeadingClosers, line_end : LineEnds] :
        /\ c.text # <<>> => c.gap # <<>>
        /\ c.text = <<"#">> => c.closer # <<>>}

HeadingInput(c) == Hashes(c.level) \o c.gap \o c.text \o c.closer \o c.line_end

\* Start(Heading), the text if any, End(Heading): the heading spans its
\* line, the text the characters of the text alone.
HeadingEvents(c) ==
    LET input == HeadingInput(c)
        attrs == [id |-> NoneOpt, classes |-> <<>>]
        from == c.level + Len(c.gap)
    IN  <<MkEvent("Start", "Heading", HeadingLevelOf(c.level), attrs, 0, Len(input))>>
        \o (IF c.text = <<>> THEN <<>>
            ELSE <<MkEvent("Text", None, "", c.text, from, from + Len(c.text))>>)
        \o <<MkEvent("End", "Heading", HeadingLevelOf(c.level), attrs, 0, Len(input))>>

\* Fenced code blocks: the fence, the lines of code, the closing fence.
MaxCodeLines == 2

FenceLengths == {3, 4}

FenceRun(c) == [i \in 1..c.length |-> c.char]

CodeLines == {<<"c">>, <<>>, <<" ">>, <<" ", "c">>}

FencedCases ==
    [construct : {"Fenced"}, char : FenceChars, length : FenceLengths,
     lines : SeqsUpTo(CodeLines, MaxCodeLines), line_end : LineEnds]

RECURSIVE JoinLines(_)
JoinLines(lines) ==
    IF lines = <<>> THEN <<>> ELSE Head(lines) \o <<"\n">> \o JoinLines(Tail(lines))

FencedInput(c) ==
    FenceRun(c) \o <<"\n">> \o JoinLines(c.lines) \o FenceRun(c) \o c.line_end

\* Start(CodeBlock(Fenced)), one Text for each line of code with its line
\* ending, End(CodeBlock); the block spans both fences.
RECURSIVE CodeLineEvents(_, _)
CodeLineEvents(lines, from) ==
    IF lines = <<>> THEN <<>>
    ELSE LET to == from + Len(Head(lines)) + 1
         IN  <<MkEvent("Text", None, "", Head(lines) \o <<"\n">>, from, to)>>
                \o CodeLineEvents(Tail(lines), to)

FencedEvents(c) ==
    LET input == FencedInput(c)
    IN  <<MkEvent("Start", "CodeBlock", "Fenced", <<>>, 0, Len(input))>>
        \o CodeLineEvents(c.lines, c.length + 1)
        \o <<MkEvent("End", "CodeBlock", "", <<>>, 0, Len(input))>>

\* Tables of a header row, the alignment row and one body row, at the top
\* level or inside a block quote.
MaxColumns == 2

Alignments == {"None", "Left", "Center", "Right"}

\* The header of a column: `a` in the odd columns, `bbbb` in the even ones.
HeaderCell(col) == IF col % 2 = 1 THEN <<"a">> ELSE <<"b", "b", "b", "b">>

BodyCells == {<<>>, <<"d", "d", "d", "d", "d">>}

TableCases ==
    UNION {[construct : {"Table"}, quoted : BOOLEAN,
            alignment : [1..n -> Alignments], body : [1..n -> BodyCells]] :
              n \in 1..MaxColumns}

\* The delimiter cell of the source for an alignment.
DelimiterCell(a) ==
    CASE a = "Left" -> <<":", "-">>
      [] a = "Right" -> <<"-", ":">>
      [] a = "Center" -> <<":", "-", ":">>
      [] OTHER -> <<"-">>

\* A row of the source: `|` and every cell followed by `|`.
RECURSIVE RowSource(_)
RowSource(cells) ==
    IF cells = <<>> THEN <<"|">> ELSE RowSource(SubSeq(cells, 1, Len(cells) - 1))
                                        \o cells[Len(cells)] \o <<"|">>

TableHeader(c) == [col \in 1..Len(c.alignment) |-> HeaderCell(col)]

QuotePrefix(c) == IF c.quoted THEN <<">", " ">> ELSE <<>>

TableInput(c) ==
    QuotePrefix(c) \o RowSource(TableHeader(c)) \o <<"\n">>
        \o QuotePrefix(c) \o RowSource([col \in 1..Len(c.alignment) |->
                                            DelimiterCell(c.alignment[col])]) \o <<"\n">>
        \o QuotePrefix(c) \o RowSource(c.body)

\* The events of the cells of a row whose first `|` is at `from`: a cell
\* spans its text, and an empty cell holds no Text.
RECURSIVE CellEvents(_, _)
CellEvents(cells, from) ==
    IF cells = <<>> THEN <<>>
    ELSE LET to == from + 1 + Len(Head(cells))
         IN  <<MkEvent("Start", "TableCell", "", <<>>, from + 1, to)>>
             \o (IF Head(cells) = <<>> THEN <<>>
                 ELSE <<MkEvent("Text", None, "", Head(cells), from + 1, to)>>)
             \o <<MkEvent("End", "TableCell", "", <<>>, from + 1, to)>>
             \o CellEvents(Tail(cells), to)

RowEvents(tag, cells, from) ==
    LET to == from + Len(RowSource(cells))
    IN  <<MkEvent("Start", tag, "", <<>>, from, to)>>
        \o CellEvents(cells, from)
        \o <<MkEvent("End", tag, "", <<>>, from, to)>>

TableEvents(c) ==
    LET input == TableInput(c)
        q == Len(QuotePrefix(c))
        n == Len(c.alignment)
        head_from == q
        body_from == Len(input) - Len(RowSource(c.body))
        table ==
            <<MkEvent("Start", "Table", "", [col \in 1..n |-> c.alignment[col]],
                      q, Len(input))>>
            \o RowEvents("TableHead", TableHeader(c), head_from)
            \o RowEvents("TableRow", c.body, body_from)
            \o <<MkEvent("End", "Table", "", <<>>, q, Len(input))>>
    IN  IF c.quoted
        THEN <<MkEvent("Start", "BlockQuote", "", <<>>, 0, Len(input))>>
             \o table
             \o <<MkEvent("End", "BlockQuote", "", <<>>, 0, Len(input))>>
        ELSE table

\* Lists of one item: the marker, and nothing after it, or the text `a` on
\* the next line, after one space or after three.
ItemMarkers == {<<"-">>, <<"*">>, <<"1", ".">>, <<"2", ")">>}

ItemContents == {"none", "next_line", "same_line", "spaced"}

ItemCases == [construct : {"Item"}, marker : ItemMarkers, content : ItemContents]

\* What separates the marker from the text.
ItemGap(c) ==
    CASE c.content = "none" -> <<>>
      [] c.content = "next_line" -> <<"\n">> \o [i \in 1..(Len(c.marker) + 1) |-> " "]
      [] c.content = "same_line" -> <<" ">>
      [] c.content = "spaced" -> <<" ", " ", " ">>

ItemText(c) == IF c.content = "none" THEN <<>> ELSE <<"a">>

ItemInput(c) == c.marker \o ItemGap(c) \o ItemText(c)

\* A tight list: the text of the item is not wrapped in a paragraph.
ItemEvents(c) ==
    LET input == ItemInput(c)
        ordered == Len(c.marker) = 2
        from == Len(c.marker) + Len(ItemGap(c))
    IN  <<MkEvent("Start", "List", IF ordered THEN c.marker[1] ELSE "unordered", <<>>,
                  0, Len(input)),
          MkEvent("Start", "Item", "", <<>>, 0, Len(input))>>
        \o (IF c.content = "none" THEN <<>>
            ELSE <<MkEvent("Text", None, "", ItemText(c), from, Len(input))>>)
        \o <<MkEvent("End", "Item", "", <<>>, 0, Len(input)),
              MkEvent("End", "List", IF ordered THEN "ordered" ELSE "unordered", <<>>,
                      0, Len(input))>>

\* Block quotes, one or two deep: empty, or holding the paragraph `a` on the
\* line of the markers or on the next line.
MaxQuoteDepth == 2

QuoteContents == {"none", "same_line", "next_line"}

QuoteCases ==
    [construct : {"BlockQuote"}, depth : 1..MaxQuoteDepth, content : QuoteContents,
     line_end : LineEnds]

\* The markers of a line: `>`, `> >`, ...
RECURSIVE QuoteMarkers(_)
QuoteMarkers(depth) ==
    IF depth = 1 THEN <<">">> ELSE <<">", " ">> \o QuoteMarkers(depth - 1)

QuoteInput(c) ==
    LET markers == QuoteMarkers(c.depth)
    IN  (CASE c.content = "none" -> markers
           [] c.content = "same_line" -> markers \o <<" ", "a">>
           [] c.content = "next_line" -> markers \o <<"\n">> \o markers \o <<" ", "a">>)
        \o c.line_end

\* The block quote of level k starts at its marker on the first line; the
\* paragraph spans its text.
QuoteEvents(c) ==
    LET input == QuoteInput(c)
        to == Len(input)
        text_to == to - Len(c.line_end)
        starts == [k \in 1..c.depth |->
                     MkEvent("Start", "BlockQuote", "", <<>>, 2 * (k - 1), to)]
        ends == [k \in 1..c.depth |->
                     MkEvent("End", "BlockQuote", "", <<>>, 2 * (c.depth - k), to)]
        paragraph ==
            <<MkEvent("Start", "Paragraph", "", <<>>, text_to - 1, to),
              MkEvent("Text", None, "", <<"a">>, text_to - 1, text_to),
              MkEvent("End", "Paragraph", "", <<>>, text_to - 1, to)>>
    IN  starts \o (IF c.content = "none" THEN <<>> ELSE paragraph) \o ends

\* A block quote that holds the paragraph `a`, a blank line and a nested
\* block quote, empty or holding the paragraph `b`, and then ends or goes on
\* with a blank line and the paragraph `c`.
NestedQuoteCases ==
    [construct : {"NestedBlockQuote"}, content : {"none", "same_line"},
     trailing : BOOLEAN, line_end : LineEnds]

NestedQuoteLine(c) ==
    IF c.content = "none" THEN <<">", " ", ">">> ELSE <<">", " ", ">", " ", "b">>

NestedQuoteInput(c) ==
    <<">", " ", "a", "\n", ">", "\n">> \o NestedQuoteLine(c)
        \o (IF c.trailing THEN <<"\n", ">", "\n", ">", " ", "c">> ELSE <<>>)
        \o c.line_end

\* The nested block quote starts at its marker, the second of its line, and
\* ends with its line; a paragraph spans its text and line ending.
NestedQuoteEvents(c) ==
    LET to == Len(NestedQuoteInput(c))
        nested_from == 8
        nested_to == IF c.trailing THEN 6 + Len(NestedQuoteLine(c)) + 1 ELSE to
        trailing_from == nested_to + 4
        paragraph(text, from, end) ==
            <<MkEvent("Start", "Paragraph", "", <<>>, from, end),
              MkEvent("Text", None, "", <<text>>, from, from + 1),
              MkEvent("End", "Paragraph", "", <<>>, from, end)>>
    IN  <<MkEvent("Start", "BlockQuote", "", <<>>, 0, to)>>
        \o paragraph("a", 2, 4)
        \o <<MkEvent("Start", "BlockQuote", "", <<>>, nested_from, nested_to)>>
        \o (IF c.content = "none" THEN <<>> ELSE paragraph("b", nested_from + 2, nested_to))
        \o <<MkEvent("End", "BlockQuote", "", <<>>, nested_from, nested_to)>>
        \o (IF c.trailing THEN paragraph("c", trailing_from, to) ELSE <<>>)
        \o <<MkEvent("End", "BlockQuote", "", <<>>, 0, to)>>

\* Setext headings: the text `a`, with or without the attribute block
\* `{#i}`, and the underline on the next line; on its own or in a block
\* quote.
SetextUnderlines == {<<"=", "=", "=">>, <<"-", "-", "-">>, <<"=">>}

SetextCases ==
    [construct : {"Setext"}, underline : SetextUnderlines, attributes : BOOLEAN,
     quoted : BOOLEAN, line_end : LineEnds]

SetextPrefix(c) == IF c.quoted THEN <<">", " ">> ELSE <<>>

SetextInput(c) ==
    SetextPrefix(c) \o <<"a">>
        \o (IF c.attributes THEN <<" ", "{", "#", "i", "}">> ELSE <<>>) \o <<"\n">>
        \o SetextPrefix(c) \o c.underline \o c.line_end

\* The heading spans its text line and its underline, from the text on; the
\* level is that of the underline character.
SetextEvents(c) ==
    LET to == Len(SetextInput(c))
        from == Len(SetextPrefix(c))
        attrs == [id |-> IF c.attributes THEN Some(<<"i">>) ELSE NoneOpt, classes |-> <<>>]
        level == IF Head(c.underline) = "=" THEN "H1" ELSE "H2"
        heading == <<MkEvent("Start", "Heading", level, attrs, from, to),
                     MkEvent("Text", None, "", <<"a">>, from, from + 1),
                     MkEvent("End", "Heading", level, attrs, from, to)>>
    IN  IF c.quoted
        THEN <<MkEvent("Start", "BlockQuote", "", <<>>, 0, to)>> \o heading
                \o <<MkEvent("End", "BlockQuote", "", <<>>, 0, to)>>
        ELSE heading

\* Paragraphs in which a text follows another inline: `*a* b` (the End of a
\* span), `<i>a` (an inline HTML tag), `a*b` (texts, the lone `*` being a
\* text of its own).
InlineShapes == {"span_text", "html_text", "text_text", "math_text"}

InlineCases == [construct : {"Inline"}, shape : InlineShapes, line_end : LineEnds]

InlineSource(c) ==
    CASE c.shape = "span_text" -> <<"*", "a", "*", " ", "b">>
      [] c.shape = "html_text" -> <<"<", "i", ">", "a">>
      [] c.shape = "text_text" -> <<"a", "*", "b">>
      [] c.shape = "math_text" -> <<"a", " ", "$", "$", "x", "$", "$", " ", "b">>

InlineInput(c) == InlineSource(c) \o c.line_end

InlineEvents(c) ==
    LET to == Len(InlineInput(c))
        inlines ==
            CASE c.shape = "span_text" ->
                    <<MkEvent("Start", "Emphasis", "", <<>>, 0, 3),
                      MkEvent("Text", None, "", <<"a">>, 1, 2),
                      MkEvent("End", "Emphasis", "", <<>>, 0, 3),
                      MkEvent("Text", None, "", <<" ", "b">>, 3, 5)>>
              [] c.shape = "html_text" ->
                    <<MkEvent("InlineHtml", None, "", <<"<", "i", ">">>, 0, 3),
                      MkEvent("Text", None, "", <<"a">>, 3, 4)>>
              [] c.shape = "text_text" ->
                    <<MkEvent("Text", None, "", <<"a">>, 0, 1),
                      MkEvent("Text", None, "", <<"*">>, 1, 2),
                      MkEvent("Text", None, "", <<"b">>, 2, 3)>>
              [] c.shape = "math_text" ->
                    <<MkEvent("Text", None, "", <<"a", " ">>, 0, 2),
                      MkEvent("DisplayMath", None, "", <<"x">>, 2, 7),
                      MkEvent("Text", None, "", <<" ", "b">>, 7, 9)>>
    IN  <<MkEvent("Start", "Paragraph", "", <<>>, 0, to)>> \o inlines
            \o <<MkEvent("End", "Paragraph", "", <<>>, 0, to)>>

\* HTML blocks of an opening tag line and up to one more line.
HtmlLines == {<<"<", "p", ">">>, <<"b">>, <<" ", "b">>}

HtmlCases ==
    {c \in [construct : {"HtmlBlock"}, lines : SeqsUpTo(HtmlLines, 2),
            line_end : LineEnds] :
        /\ c.lines # <<>>
        /\ Head(c.lines) = <<"<", "p", ">">>}

\* The last line ends the document or carries its line ending.
HtmlInput(c) ==
    LET joined == JoinLines(c.lines)
    IN  SubSeq(joined, 1, Len(joined) - 1) \o c.line_end

\* Start(HtmlBlock), one Html for each line with its line ending if it has
\* one, End(HtmlBlock); the block spans its lines.
RECURSIVE HtmlLineEvents(_, _, _)
HtmlLineEvents(input, lines, from) ==
    IF lines = <<>> THEN <<>>
    ELSE LET to == IF Len(lines) = 1 THEN Len(input) ELSE from + Len(Head(lines)) + 1
         IN  <<MkEvent("Html", None, "", Slice(input, from, to), from, to)>>
                \o HtmlLineEvents(input, Tail(lines), to)

HtmlEvents(c) ==
    LET input == HtmlInput(c)
    IN  <<MkEvent("Start", "HtmlBlock", "", <<>>, 0, Len(input))>>
        \o HtmlLineEvents(input, c.lines, 0)
        \o <<MkEvent("End", "HtmlBlock", "", <<>>, 0, Len(input))>>

\* Paragraphs of one link or image of each link type: the text `a`, the
\* destination `u`, the title `t` in double or single quotes, the label `l`,
\* destination and label with or without spaces around them.
LinkTypes ==
    {"Inline", "Reference", "ReferenceUnknown", "Collapsed", "CollapsedUnknown",
     "Shortcut", "ShortcutUnknown", "Autolink", "Email"}

TitleQuotes == {"\"", "'"}

LinkCases ==
    {c \in [construct : {"Link"}, image : BOOLEAN, link_type : LinkTypes,
            quote : OptionOf(TitleQuotes), padded : BOOLEAN] :
        /\ c.image => c.link_type \notin {"Autolink", "Email"}
        /\ IsSome(c.quote) => c.link_type = "Inline"
        /\ c.padded => c.link_type \in {"Inline", "Reference", "ReferenceUnknown"}}

LinkText(c) ==
    CASE c.link_type = "Autolink" -> <<"h", ":", "u">>
      [] c.link_type = "Email" -> <<"a", "@", "b">>
      [] OTHER -> <<"a">>

LinkSourceOpener(c) ==
    IF c.image THEN <<"!", "[">>
    ELSE IF c.link_type \in {"Autolink", "Email"} THEN <<"<">> ELSE <<"[">>

LinkSourceCloser(c) ==
    LET pad == IF c.padded THEN <<" ">> ELSE <<>>
        title == IF IsSome(c.quote)
                 THEN <<" ", Unwrap(c.quote), "t", Unwrap(c.quote)>> ELSE <<>>
    IN  CASE c.link_type = "Inline" -> <<"]", "(">> \o pad \o <<"u">> \o title \o pad \o <<")">>
          [] c.link_type \in {"Reference", "ReferenceUnknown"} ->
                <<"]", "[">> \o pad \o <<"l">> \o pad \o <<"]">>
          [] c.link_type \in {"Collapsed", "CollapsedUnknown"} -> <<"]", "[", "]">>
          [] c.link_type \in {"Shortcut", "ShortcutUnknown"} -> <<"]">>
          [] OTHER -> <<">">>

LinkInput(c) == LinkSourceOpener(c) \o LinkText(c) \o LinkSourceCloser(c)

\* The paragraph and the link span the source, the text its characters.
LinkEvents(c) ==
    LET to == Len(LinkInput(c))
        tag == IF c.image THEN "Image" ELSE "Link"
        from == Len(LinkSourceOpener(c))
    IN  <<MkEvent("Start", "Paragraph", "", <<>>, 0, to),
          MkEvent("Start", tag, c.link_type, <<>>, 0, to),
          MkEvent("Text", None, "", LinkText(c), from, from + Len(LinkText(c))),
          MkEvent("End", tag, "", <<>>, 0, to),
          MkEvent("End", "Paragraph", "", <<>>, 0, to)>>

\* Paragraphs of one emphasised `a`: emphasis, strong emphasis, or strong
\* emphasis inside emphasis, written with `*` or `_`, formatted with the
\* default Config or with one that fixes the markers to `_` and `__`.
EmphasisShapes == {"emphasis", "strong", "both"}

EmphasisChars == {"*", "_"}

EmphasisCases ==
    [construct : {"Emphasis"}, shape : EmphasisShapes, char : EmphasisChars,
     fixed : BOOLEAN]

DelimiterRun(c) ==
    CASE c.shape = "emphasis" -> <<c.char>>
      [] c.shape = "strong" -> <<c.char, c.char>>
      [] c.shape = "both" -> <<c.char, c.char, c.char>>

EmphasisInput(c) == DelimiterRun(c) \o <<"a">> \o DelimiterRun(c)

\* Start and End of a span carry the range of the span; of a run of three
\* the outer character is the emphasis and the inner two the strong emphasis.
EmphasisEvents(c) ==
    LET to == Len(EmphasisInput(c))
        n == Len(DelimiterRun(c))
        outer == IF c.shape = "strong" THEN "Strong" ELSE "Emphasis"
        inner(events) ==
            IF c.shape = "both"
            THEN <<MkEvent("Start", "Strong", "", <<>>, 1, to - 1)>> \o events
                    \o <<MkEvent("End", "Strong", "", <<>>, 1, to - 1)>>
            ELSE events
    IN  <<MkEvent("Start", "Paragraph", "", <<>>, 0, to),
          MkEvent("Start", outer, "", <<>>, 0, to)>>
        \o inner(<<MkEvent("Text", None, "", <<"a">>, n, n + 1)>>)
        \o <<MkEvent("End", outer, "", <<>>, 0, to),
              MkEvent("End", "Paragraph", "", <<>>, 0, to)>>

BlockCases ==
    HeadingCases \cup FencedCases \cup TableCases \cup ItemCases \cup QuoteCases
        \cup HtmlCases \cup LinkCases \cup EmphasisCases \cup NestedQuoteCases
        \cup SetextCases \cup InlineCases

BlockInput(c) ==
    CASE c.construct = "Heading" -> HeadingInput(c)
      [] c.construct = "Fenced" -> FencedInput(c)
      [] c.construct = "Table" -> TableInput(c)
      [] c.construct = "Item" -> ItemInput(c)
      [] c.construct = "BlockQuote" -> QuoteInput(c)
      [] c.construct = "HtmlBlock" -> HtmlInput(c)
      [] c.construct = "Link" -> LinkInput(c)
      [] c.construct = "Emphasis" -> EmphasisInput(c)
      [] c.construct = "NestedBlockQuote" -> NestedQuoteInput(c)
      [] c.construct = "Setext" -> SetextInput(c)
      [] c.construct = "Inline" -> InlineInput(c)

BlockEvents(c) ==
    CASE c.construct = "Heading" -> HeadingEvents(c)
      [] c.construct = "Fenced" -> FencedEvents(c)
      [] c.construct = "Table" -> TableEvents(c)
      [] c.construct = "Item" -> ItemEvents(c)
      [] c.construct = "BlockQuote" -> QuoteEvents(c)
      [] c.construct = "HtmlBlock" -> HtmlEvents(c)
      [] c.construct = "Link" -> LinkEvents(c)
      [] c.construct = "Emphasis" -> EmphasisEvents(c)
      [] c.construct = "NestedBlockQuote" -> NestedQuoteEvents(c)
      [] c.construct = "Setext" -> SetextEvents(c)
      [] c.construct = "Inline" -> InlineEvents(c)

\* The Config a block is formatted with.
BlockConfig(c) ==
    IF c.construct = "Emphasis" /\ c.fixed
    THEN [Config_default EXCEPT !.fixed_emphasis_marker = Some(<<"_">>),
                                !.fixed_strong_marker = Some(<<"_", "_">>)]
    ELSE Config_default

BlockInit ==
    /\ debug_assertions \in BOOLEAN
    /\ AdapterIdle
    /\ arg \in BlockCases
    /\ ret = <<>>
    /\ fs = FormatState_new(BlockInput(arg), BlockConfig(arg), BlockEvents(arg), <<>>)
    /\ handed = fs.reference_links
    /\ delivered = fs.events
    /\ epc = "run"
    /\ output = <<>>
    /\ pass = 1
    /\ first_output = <<>>

BlockNext == FormatState_format_next \/ FormatState_format_return

SpecBlock == BlockInit /\ [][BlockNext]_vars

\* ------------------------------------------------------------------
\* format() with an external formatter whose writes can fail
\* ------------------------------------------------------------------
\* The blocks that are written through an external formatter, formatted with
\* an E that accepts every write or returns Err after up to MaxAccepted
\* writes.
MaxAccepted == 1

Faults == OptionOf(0..MaxAccepted)

FaultCases ==
    FencedCases \cup HtmlCases \cup {c \in QuoteCases : c.content # "none"}

FaultInit ==
    /\ debug_assertions \in BOOLEAN
    /\ AdapterIdle
    /\ arg \in FaultCases
    /\ ret = <<>>
    /\ \E reject \in Faults :
            fs = [FormatState_new(BlockInput(arg), Config_default, BlockEvents(arg), <<>>)
                    EXCEPT !.reject = reject]
    /\ handed = fs.reference_links
    /\ delivered = fs.events
    /\ epc = "run"
    /\ output = <<>>
    /\ pass = 1
    /\ first_output = <<>>

SpecFault == FaultInit /\ [][BlockNext]_vars

\* ------------------------------------------------------------------
\* write_str called on its own
\* ------------------------------------------------------------------
\* The FormatState a write finds: any stack of up to MaxRoutingDepth tags,
\* any external formatter or none, a table state or none, forced
\* rewrite-buffer mode or not.
MaxRoutingDepth == 2

RoutingTags ==
    {[tag |-> "Item", kind |-> "", text |-> <<>>],
     [tag |-> "CodeBlock", kind |-> "Fenced", text |-> <<>>],
     [tag |-> "CodeBlock", kind |-> "Indented", text |-> <<>>],
     [tag |-> "TableHead", kind |-> "", text |-> <<>>],
     [tag |-> "TableRow", kind |-> "", text |-> <<>>]}

BufferTypes == {"CodeBlock", "HtmlBlock", "Paragraph", "DisplayMath"}

RoutingStates ==
    {[FormatState_new(<<>>, Config_default, <<>>, <<>>) EXCEPT
            !.nested_context = nested, !.external_formatter = formatter,
            !.table_state = table, !.force_rewrite_buffer = force] :
        nested \in SeqsUpTo(RoutingTags, MaxRoutingDepth),
        formatter \in OptionOf({ExternalFormatter_new(bt, NoneOpt) : bt \in BufferTypes}),
        table \in OptionOf({TableState_new(<<"None">>)}),
        force \in BOOLEAN}

RoutingInit ==
    /\ debug_assertions \in BOOLEAN
    /\ AdapterIdle
    /\ fs \in RoutingStates
    /\ epc = "idle"
    /\ output = <<>>
    /\ pass = 0
    /\ first_output = <<>>
    /\ handed = <<>>
    /\ delivered = <<>>
    /\ arg = <<"x">>
    /\ ret = <<>>

\* self.write_str(text) returns; ret keeps the state it was called on.
FormatState_write_str ==
    /\ epc = "idle"
    /\ fs # <<>>
    /\ ret = <<>>
    /\ fs' = Call("write_str", <<fs, arg>>)
    /\ ret' = <<fs>>
    /\ UNCHANGED <<debug_assertions, adapterVars, arg, epc, output, pass, first_output,
                   handed, delivered>>

RoutingNext == FormatState_write_str

SpecRouting == RoutingInit /\ [][RoutingNext]_vars

\* ------------------------------------------------------------------
\* start_tag(Tag::Item) called on its own
\* ------------------------------------------------------------------
\* A list item and the event that follows its Start: the End of an empty
\* item, the text of a tight item, or the Start of its first child.
ItemChildren ==
    {"none", "text", "paragraph", "fenced", "indented", "html", "table", "list"}

FixedIndentations == OptionOf({<<" ", " ">>, <<"\t">>})

ItemStartCases ==
    [marker : ItemMarkers, child : ItemChildren, fixed_indentation : FixedIndentations]

ChildSource(child) ==
    CASE child = "none" -> <<>>
      [] child \in {"text", "paragraph"} -> <<" ", "a">>
      [] child = "fenced" -> <<" ", "~", "~", "~">>
      [] child = "indented" -> <<" ", " ", " ", " ", " ", "c">>
      [] child = "html" -> <<" ", "<", "p", ">">>
      [] child = "table" -> <<" ", "|", "a", "|", "\n", " ", " ", " ", "|", "-", "|">>
      [] child = "list" -> <<" ", "-", " ", "a">>

ItemStartInput(c) == c.marker \o ChildSource(c.child)

ItemStartEvent(c) == MkEvent("Start", "Item", "", <<>>, 0, Len(ItemStartInput(c)))

\* The event self.events.peek() finds. A table opens with Start(Table),
\* which Start(TableHead) follows.
ItemNextEvent(c) ==
    LET from == Len(c.marker) + 1
        to == Len(ItemStartInput(c))
    IN  CASE c.child = "none" -> MkEvent("End", "Item", "", <<>>, 0, to)
          [] c.child = "text" -> MkEvent("Text", None, "", <<"a">>, from, to)
          [] c.child = "paragraph" -> MkEvent("Start", "Paragraph", "", <<>>, from, to)
          [] c.child = "fenced" -> MkEvent("Start", "CodeBlock", "Fenced", <<>>, from, to)
          [] c.child = "indented" ->
                MkEvent("Start", "CodeBlock", "Indented", <<>>, from + 4, to)
          [] c.child = "html" -> MkEvent("Start", "HtmlBlock", "", <<>>, from, to)
          [] c.child = "table" -> MkEvent("Start", "Table", "", <<"None">>, from, to)
          [] c.child = "list" -> MkEvent("Start", "List", "unordered", <<>>, from, to)

\* The state after Start(List): the list is on nested_context and the
\* iterator is behind Start(Item).
ItemStartInit ==
    /\ debug_assertions \in BOOLEAN
    /\ AdapterIdle
    /\ arg \in ItemStartCases
    /\ ret = <<>>
    /\ fs = [FormatState_new(ItemStartInput(arg),
                             [Config_default EXCEPT
                                    !.fixed_indentation = arg.fixed_indentation],
                             <<ItemNextEvent(arg)>>, <<>>)
                EXCEPT !.nested_context =
                    <<[tag |-> "List", kind |-> "unordered", text |-> <<>>]>>]
    /\ epc = "idle"
    /\ output = <<>>
    /\ pass = 0
    /\ first_output = <<>>
    /\ handed = <<>>
    /\ delivered = <<>>

\* self.format_one_event(Start(Item), range) returns; ret keeps the state it
\* was called on.
FormatState_start_tag_Item ==
    /\ epc = "idle"
    /\ ret = <<>>
    /\ fs' = Call("format_one_event", <<fs, ItemStartEvent(arg)>>)
    /\ ret' = <<fs>>
    /\ UNCHANGED <<debug_assertions, adapterVars, arg, epc, output, pass, first_output,
                   handed, delivered>>

ItemStartNext == FormatState_start_tag_Item

SpecItemStart == ItemStartInit /\ [][ItemStartNext]_vars

\* ------------------------------------------------------------------
\* Config::list_marker called on its own
\* ------------------------------------------------------------------
\* The values a fixed_* field of Config is given.
FixedNumbers == {1, 7}
FixedZeroPaddings == {0, 2}
OrderedListMarkers == {".", ")"}
UnorderedListMarkers == {"*", "+", "-"}

\* Every Config that differs from the default in the four list fields.
ListConfigs ==
    {[Config_default EXCEPT !.fixed_zero_padding = z, !.fixed_number = n,
                            !.fixed_ordered_list_marker = o,
                            !.fixed_unordered_list_marker = u] :
        z \in OptionOf(FixedZeroPaddings), n \in OptionOf(FixedNumbers),
        o \in OptionOf(OrderedListMarkers), u \in OptionOf(UnorderedListMarkers)}

\* The source markers handed over: each one as the parser classifies it
\* (ordered or not, zero padding, number, delimiter or bullet) and its text,
\* which list_marker receives with the whitespace and item text around it.
SourceMarkers ==
    {[ordered |-> TRUE, zero_padding |-> 0, number |-> 1, marker |-> ".",
      text |-> <<"1", ".">>],
     [ordered |-> TRUE, zero_padding |-> 0, number |-> 2, marker |-> ".",
      text |-> <<"2", ".", " ", "a">>],
     [ordered |-> TRUE, zero_padding |-> 0, number |-> 3, marker |-> ")",
      text |-> <<"3", ")", " ", "a">>],
     [ordered |-> TRUE, zero_padding |-> 2, number |-> 7, marker |-> ".",
      text |-> <<" ", "0", "0", "7", ".">>],
     [ordered |-> FALSE, zero_padding |-> 0, number |-> 0, marker |-> "-",
      text |-> <<"-", " ", "a">>],
     [ordered |-> FALSE, zero_padding |-> 0, number |-> 0, marker |-> "*",
      text |-> <<"*">>],
     [ordered |-> FALSE, zero_padding |-> 0, number |-> 0, marker |-> "+",
      text |-> <<" ", "+", " ", "a">>]}

\* A source with no marker in it.
BlankSource ==
    [ordered |-> FALSE, zero_padding |-> 0, number |-> 0, marker |-> "",
     text |-> <<" ">>]

ListMarkerInit ==
    /\ debug_assertions \in BOOLEAN
    /\ AdapterIdle
    /\ EngineIdle
    /\ \E config \in ListConfigs, source \in SourceMarkers \cup {BlankSource} :
          arg = [config |-> config, source |-> source]
    /\ ret = <<>>

\* config.list_marker(source) returns.
Config_list_marker ==
    /\ arg # <<>>
    /\ ret = <<>>
    /\ ret' = <<list_marker(arg.config, arg.source.text)>>
    /\ UNCHANGED <<debug_assertions, adapterVars, engineVars, arg>>

ListMarkerNext == Config_list_marker

SpecListMarker == ListMarkerInit /\ [][ListMarkerNext]_vars

\* ------------------------------------------------------------------
\* ExternalFormatter::new called on its own
\* ------------------------------------------------------------------
\* enum BufferType; the info string of a code block is None or `rs`.
BufferTypeValues ==
    {[variant |-> "CodeBlock", info |-> info] : info \in OptionOf({<<"r", "s">>})}
        \cup {[variant |-> v, info |-> NoneOpt] : v \in {"DisplayMath", "HtmlBlock", "Paragraph"}}

\* BufferType::to_formatting_context, to enum FormattingContext
to_formatting_context(buffer_type) ==
    CASE buffer_type.variant = "CodeBlock" -> "FormattingContext::CodeBlock"
      [] buffer_type.variant = "DisplayMath" -> "FormattingContext::DisplayMath"
      [] buffer_type.variant = "HtmlBlock" -> "FormattingContext::HtmlBlock"
      [] buffer_type.variant = "Paragraph" -> "FormattingContext::Paragraph"

PreservingBuffer_new(buffer_type, max_width, capacity) ==
    [impl |-> "PreservingBuffer", buffer |-> <<>>,
     context |-> to_formatting_context(buffer_type)]

TrimTo4Indent_new(buffer_type, max_width, capacity) ==
    [impl |-> "TrimTo4Indent", buffer |-> <<>>,
     context |-> to_formatting_context(buffer_type)]

\* Paragraph keeps no context: its context() is a constant.
Paragraph_new(buffer_type, max_width, capacity) ==
    [impl |-> "Paragraph", buffer |-> <<>>, max_width |-> max_width]

\* FnFormatter keeps the buffer type, the info string made owned.
FnFormatter_new(buffer_type, max_width, capacity) ==
    [impl |-> "FnFormatter", buffer |-> <<>>, buffer_type |-> buffer_type,
     max_width |-> max_width]

\* The always-Paragraph choice.
FormatterCombination_new_Paragraph(buffer_type, max_width, capacity) ==
    [variant |-> "Paragraph", inner |-> Paragraph_new(buffer_type, max_width, capacity)]

\* FormatterCombination::new with the type parameters of
\* DefaultFormatterCombination: PreservingBuffer, TrimTo4Indent,
\* TrimTo4Indent, Paragraph.
FormatterCombination_new(buffer_type, max_width, capacity) ==
    CASE buffer_type.variant = "CodeBlock" ->
            [variant |-> "CodeBlock",
             inner |-> PreservingBuffer_new(buffer_type, max_width, capacity)]
      [] buffer_type.variant = "DisplayMath" ->
            [variant |-> "DisplayMath",
             inner |-> TrimTo4Indent_new(buffer_type, max_width, capacity)]
      [] buffer_type.variant = "HtmlBlock" ->
            [variant |-> "HtmlBlock",
             inner |-> TrimTo4Indent_new(buffer_type, max_width, capacity)]
      [] buffer_type.variant = "Paragraph" ->
            [variant |-> "Paragraph",
             inner |-> Paragraph_new(buffer_type, max_width, capacity)]

\* context() of PreservingBuffer, TrimTo4Indent, Paragraph and FnFormatter
ExternalFormatter_context(f) ==
    CASE f.impl \in {"PreservingBuffer", "TrimTo4Indent"} -> f.context
      [] f.impl = "Paragraph" -> "FormattingContext::Paragraph"
      [] f.impl = "FnFormatter" -> to_formatting_context(f.buffer_type)

\* FormatterCombination::context: that of the inner formatter, whatever the
\* variant.
FormatterCombination_context(fc) == ExternalFormatter_context(fc.inner)

FormatterKinds == {"DefaultFormatterCombination", "FnFormatter"}

FormatterNewInit ==
    /\ debug_assertions \in BOOLEAN
    /\ AdapterIdle
    /\ EngineIdle
    /\ \E kind \in FormatterKinds, buffer_type \in BufferTypeValues,
          max_width \in OptionOf({80}), capacity \in {0, 8} :
          arg = [kind |-> kind, buffer_type |-> buffer_type, max_width |-> max_width,
                 capacity |-> capacity]
    /\ ret = <<>>

\* E::new(buffer_type, max_width, capacity) returns.
ExternalFormatter_new_returns ==
    /\ arg # <<>>
    /\ ret = <<>>
    /\ ret' = <<IF arg.kind = "FnFormatter"
                THEN FnFormatter_new(arg.buffer_type, arg.max_width, arg.capacity)
                ELSE FormatterCombination_new(arg.buffer_type, arg.max_width, arg.capacity)>>
    /\ UNCHANGED <<debug_assertions, adapterVars, engineVars, arg>>

FormatterNewNext == ExternalFormatter_new_returns

SpecFormatterNew == FormatterNewInit /\ [][FormatterNewNext]_vars

\* ------------------------------------------------------------------
\* TrimTo4Indent written to on its own
\* ------------------------------------------------------------------
MaxTextLen == 5

TextChars == {" ", "x", "\n"}

\* A TrimTo4Indent just built, and the text its owner is going to write.
TrimInit ==
    /\ debug_assertions \in BOOLEAN
    /\ AdapterIdle
    /\ EngineIdle
    /\ \E text \in SeqsUpTo(TextChars, MaxTextLen), buffer_type \in {"DisplayMath", "HtmlBlock"} :
          arg = [pending |-> text, written |-> <<>>, buffer_type |-> buffer_type]
    /\ ret = <<ExternalFormatter_new(arg.buffer_type, NoneOpt)>>

\* One write_str call with the next characters of the text, as many as the
\* owner has at hand.
TrimTo4Indent_write(n) ==
    /\ arg # <<>>
    /\ ret # <<>>
    /\ n \in 1..Len(arg.pending)
    /\ ret' = <<FormatterCombination_write_str(ret[1], SubSeq(arg.pending, 1, n))>>
    /\ arg' = [arg EXCEPT !.pending = SubSeq(@, n + 1, Len(@)),
                          !.written = @ \o SubSeq(arg.pending, 1, n)]
    /\ UNCHANGED <<debug_assertions, adapterVars, engineVars>>

TrimNext == \E n \in 1..MaxTextLen : TrimTo4Indent_write(n)

SpecTrim == TrimInit /\ [][TrimNext]_vars

\* ------------------------------------------------------------------
\* links::format_link_url called on its own
\* ------------------------------------------------------------------
\* Every destination of up to MaxUrlLen characters.
MaxUrlLen == 3

UrlChars == {"a", " ", "(", ")", "<", ">", "\\"}

LinkUrlInit ==
    /\ debug_assertions \in BOOLEAN
    /\ AdapterIdle
    /\ EngineIdle
    /\ \E url \in SeqsUpTo(UrlChars, MaxUrlLen), wrap_empty_urls \in BOOLEAN :
          arg = [url |-> url, wrap_empty_urls |-> wrap_empty_urls]
    /\ ret = <<>>

\* format_link_url(url, wrap_empty_urls) returns.
links_format_link_url ==
    /\ arg # <<>>
    /\ ret = <<>>
    /\ ret' = <<format_link_url(arg.url, arg.wrap_empty_urls)>>
    /\ UNCHANGED <<debug_assertions, adapterVars, engineVars, arg>>

LinkUrlNext == links_format_link_url

SpecLinkUrl == LinkUrlInit /\ [][LinkUrlNext]_vars

\* ------------------------------------------------------------------
\* ListMarker::zero_padding called on its own
\* ------------------------------------------------------------------
\* Every zero padding up to MaxZeroPadding, one more than ZERO_PADDING holds.
MaxZeroPadding == 21

ListMarkers ==
    [ordered : {TRUE}, zero_padding : 0..MaxZeroPadding, number : FixedNumbers,
     marker : OrderedListMarkers]
        \cup [ordered : {FALSE}, zero_padding : {0}, number : {0},
              marker : UnorderedListMarkers]

ZeroPaddingInit ==
    /\ debug_assertions \in BOOLEAN
    /\ AdapterIdle
    /\ EngineIdle
    /\ arg \in ListMarkers
    /\ ret = <<>>

\* list_marker.zero_padding() returns, or panics in its slice.
ListMarker_zero_padding_returns ==
    /\ arg # <<>>
    /\ ret = <<>>
    /\ ret' = <<IF ListMarker_zero_padding_panics(arg)
                THEN [panic |-> "slice end out of range", text |-> <<>>]
                ELSE [panic |-> "", text |-> ListMarker_zero_padding(arg)]>>
    /\ UNCHANGED <<debug_assertions, adapterVars, engineVars, arg>>

ZeroPaddingNext == ListMarker_zero_padding_returns

SpecZeroPadding == ZeroPaddingInit /\ [][ZeroPaddingNext]_vars

\* ------------------------------------------------------------------
\* An inline link written and read back
\* ------------------------------------------------------------------
\* Every title of up to MaxTitleLen characters, with each quote character.
MaxTitleLen == 2

TitleChars == {"b", "\"", "\\"}

QuoteChars == {"\"", "'", ")"}

LinkTitles ==
    OptionOf([title : SeqsUpTo(TitleChars, MaxTitleLen), quote : QuoteChars])

\* The source text up to the link's closing bracket.
LinkTextStart == <<"[", "t">>

LinkRoundTripInit ==
    /\ debug_assertions \in BOOLEAN
    /\ AdapterIdle
    /\ \E url \in SeqsUpTo(UrlChars, MaxUrlLen), title \in LinkTitles :
          arg = [url |-> url, title |-> title]
    /\ ret = <<>>
    /\ fs = [FormatState_new(<<>>, Config_default, <<>>, <<>>)
                EXCEPT !.rewrite_buffer = LinkTextStart]
    /\ epc = "idle"
    /\ output = <<>>
    /\ pass = 0
    /\ first_output = <<>>
    /\ handed = <<>>
    /\ delivered = <<>>

\* self.write_inline_link(url, title) returns.
FormatState_write_inline_link ==
    /\ ret = <<>>
    /\ fs.rewrite_buffer = LinkTextStart
    /\ fs' = Call("write_inline_link", <<fs, arg.url, arg.title>>)
    /\ UNCHANGED <<debug_assertions, adapterVars, unitVars, epc, output, pass,
                   first_output, handed, delivered>>

\* find_inline_url_and_title(text) returns, or panics in its slice, `text`
\* being the link as written.
links_find_inline_url_and_title ==
    /\ ret = <<>>
    /\ fs.rewrite_buffer # LinkTextStart
    /\ IF find_inline_url_and_title_panics(fs.rewrite_buffer)
       THEN /\ fs' = Panic(fs, "slice index starts after its end")
            /\ ret' = <<NoneOpt>>
       ELSE /\ fs' = fs
            /\ ret' = <<Some(find_inline_url_and_title(fs.rewrite_buffer))>>
    /\ UNCHANGED <<debug_assertions, adapterVars, arg, epc, output, pass,
                   first_output, handed, delivered>>

LinkRoundTripNext == FormatState_write_inline_link \/ links_find_inline_url_and_title

SpecLinkRoundTrip == LinkRoundTripInit /\ [][LinkRoundTripNext]_vars

\* ------------------------------------------------------------------
\* Claims about SequentialBlockAdapter
\* ------------------------------------------------------------------
FamilyTags == {"Paragraph", "CodeBlock", "HtmlBlock"}

EmittedEvent(i) == upstream[emitted[i]]

\* The family span open after the first n emitted events: None, a family tag,
\* or "Broken" once a family Start was emitted inside an open family span or
\* a family End was emitted that does not close the span opened last.
RECURSIVE OpenAfter(_)
OpenAfter(n) ==
    IF n = 0 THEN None
    ELSE LET before == OpenAfter(n - 1)
             e == EmittedEvent(n)
         IN  IF before = "Broken" \/ e.tag \notin FamilyTags THEN before
             ELSE IF e.type = "Start"
                  THEN IF before = None THEN e.tag ELSE "Broken"
                  ELSE IF before = e.tag THEN None ELSE "Broken"

Panicked == apc \in {"panic_no_end", "panic_assert"}

C8_PanicOnlyWithoutMatchingEnd ==
    apc = "panic_no_end" =>
        \A i \in 1..Len(out_of_place_events) :
            ~IsMatchingEnd(upstream[out_of_place_events[i]], context)

\* C9: two events that were both buffered are emitted in the order in which
\* they were read from the upstream iterator.
C9_ReplayIsFifo ==
    \A i, j \in 1..Len(emitted) :
        (i < j /\ emitted[i] \in buffered /\ emitted[j] \in buffered)
            => emitted[i] < emitted[j]

\* ------------------------------------------------------------------
\* Claims about the engine run on an arbitrary event stream
\* ------------------------------------------------------------------
\* The number of events format() has taken from the stream and formatted
\* without a panic, and the last of them.
Processed == Len(delivered) - Len(fs.events)
LastEvent == delivered[Processed]

\* The End formatted last popped the tag a Start of its own kind pushed, and
\* a finished run leaves nested_context empty.
EveryEndPopsItsStart ==
    /\ (/\ epc \in {"run", "done"}
        /\ Processed > 0
        /\ LastEvent.type = "End"
        /\ LastEvent.tag \in PushingTags)
            => /\ IsSome(fs.popped_tag)
               /\ to_end(Unwrap(fs.popped_tag)) = TagEndOf(LastEvent)
    /\ epc = "done" => fs.nested_context = <<>>

Finished == epc = "done"
Ended == epc \in {"done", "panic"}

\* How often the definition whose span starts at `start` has been written.
TimesWritten(start) ==
    Cardinality({i \in 1..Len(fs.written) :
                    fs.written[i].what = "definition" /\ fs.written[i].start = start})

HandedStarts == {handed[i].start : i \in 1..Len(handed)}

\* C4: every definition handed to the engine is written exactly once over the
\* whole run: never twice at any moment, and once when the run has ended.
C4_EachDefinitionWrittenOnce ==
    \A d \in HandedStarts :
        /\ TimesWritten(d) <= 1
        /\ Ended => TimesWritten(d) = 1

\* The positions in `written` of the definitions.
DefinitionWrites == {i \in 1..Len(fs.written) : fs.written[i].what = "definition"}

\* C5: definitions are written in strictly ascending order of span start
\* across the whole run, inline flushes and the final flush together: every
\* write comes after the writes of all the handed definitions that start
\* earlier, and before any write of one that starts later.
C5_DefinitionsAscending ==
    \A j \in DefinitionWrites :
        /\ \A i \in DefinitionWrites :
              i < j => fs.written[i].start < fs.written[j].start
        /\ \A d \in HandedStarts :
              d < fs.written[j].start =>
                \E i \in DefinitionWrites : i < j /\ fs.written[i].start = d

\* C5 witness: a finished run that wrote one definition in an inline flush
\* (an event's output follows it) and a later one in the final flush.
C5_Witness ==
    /\ Finished
    /\ \E i, j \in DefinitionWrites :
          /\ i < j
          /\ \E k \in (i + 1)..(j - 1) : fs.written[k].what # "definition"
          /\ \A k \in (j + 1)..Len(fs.written) : fs.written[k].what = "definition"

\* C6: a definition is written before the output of every content event
\* (Start, Text, Rule, ...) whose source range starts after the definition.
C6_DefinitionBeforeLaterContent ==
    \A d \in HandedStarts :
        \A i \in 1..Len(fs.written) :
            (fs.written[i].what \notin {"definition", "End"} /\ fs.written[i].start > d)
                => \E j \in 1..(i - 1) :
                      fs.written[j].what = "definition" /\ fs.written[j].start = d

\* An event stream as the round-trip test compares it: without the source
\* ranges, without the Text events that are all whitespace, the other Text
\* events trimmed.
RECURSIVE Semantic(_)
Semantic(events) ==
    IF events = <<>> THEN <<>>
    ELSE LET e == Head(events)
         IN  IF e.type = "Text" /\ Trim(e.text) = <<>> THEN Semantic(Tail(events))
             ELSE <<[type |-> e.type, tag |-> e.tag, kind |-> e.kind,
                     text |-> IF e.type = "Text" THEN Trim(e.text) ELSE e.text]>>
                    \o Semantic(Tail(events))

\* C2: the events of the re-parsed output are those of the parsed input, in
\* number, kind and order.
C2_SemanticRoundTrip ==
    (Finished /\ pass = 1 /\ Parse(output).ok)
        => Semantic(Parse(output).events) = Semantic(delivered)

\* C10: the output ends with a newline exactly when the input does.
C10_TrailingNewlineMirrorsInput ==
    (Finished /\ pass = 1) => (EndsWith(output, "\n") <=> EndsWith(fs.input, "\n"))

\* C1: formatting the output of format again yields the same string.
C1_Idempotent ==
    (Finished /\ pass = 2) => output = first_output

\* ------------------------------------------------------------------
\* Claims about list markers
\* ------------------------------------------------------------------
\* config.list_marker(source) has returned.
Returned == ret # <<>>

\* A fixed_* field that is Some fixes the field of the marker returned.
Fixes(fixed, value) == IsSome(fixed) => value = Unwrap(fixed)

\* C11: for every parsable source marker Config::list_marker returns a marker
\* of the kind of the source (ordered or unordered) in which every field whose
\* fixed_* value is Some equals that value: fixed_zero_padding, fixed_number
\* and fixed_ordered_list_marker for an ordered marker,
\* fixed_unordered_list_marker for an unordered one.
C11_FixedFieldsWin ==
    (Returned /\ arg.source \in SourceMarkers) =>
        /\ IsSome(ret[1])
        /\ LET m == Unwrap(ret[1])
               c == arg.config
           IN  /\ m.ordered = arg.source.ordered
               /\ m.ordered =>
                    /\ Fixes(c.fixed_zero_padding, m.zero_padding)
                    /\ Fixes(c.fixed_number, m.number)
                    /\ Fixes(c.fixed_ordered_list_marker, m.marker)
               /\ ~m.ordered => Fixes(c.fixed_unordered_list_marker, m.marker)

\* The item `3) a` under fixed_number = 7, fixed_zero_padding = 2 and Period
\* came back as the ordered marker `007.`, and the bullet `*` under Hyphen
\* would come back as `-`.
C11_Witness ==
    /\ Returned
    /\ arg.source.text = <<"3", ")", " ", "a">>
    /\ arg.config.fixed_number = Some(7)
    /\ arg.config.fixed_zero_padding = Some(2)
    /\ arg.config.fixed_ordered_list_marker = Some(".")
    /\ ret[1] = Some([ordered |-> TRUE, zero_padding |-> 2, number |-> 7, marker |-> "."])

\* C12: under the default Config the marker returned for an item is the
\* marker of its source: an ordered one with the number, zero padding and
\* delimiter of the source, an unordered one with its bullet character.
C12_DefaultKeepsSourceMarker ==
    (Returned /\ arg.config = Config_default /\ arg.source \in SourceMarkers) =>
        ret[1] = Some([ordered |-> arg.source.ordered,
                       zero_padding |-> arg.source.zero_padding,
                       number |-> arg.source.number,
                       marker |-> arg.source.marker])

\* ------------------------------------------------------------------
\* Claims about single blocks
\* ------------------------------------------------------------------
\* C13: an ATX heading of level n is written as n `#` characters, one space
\* and the heading text, whatever the spacing and closing sequence of the
\* source; a heading with no text is written as the n `#` characters alone.
C13_AtxHeadingNormalised ==
    (Finished /\ arg.construct = "Heading") =>
        output = Hashes(arg.level)
                    \o (IF arg.text = <<>> THEN <<>> ELSE <<" ">> \o arg.text)
                    \o arg.line_end

\* C14: the opening and the closing fence written are the run of fence
\* characters the block's source starts with, and every line of code between
\* them, whitespace-only lines included, is written with its text unchanged.
C14_FencedCodeBlockPreserved ==
    (Finished /\ arg.construct = "Fenced") =>
        output = FenceRun(arg) \o <<"\n">> \o JoinLines(arg.lines)
                    \o FenceRun(arg) \o arg.line_end

\* The width of a column of a table case: that of its widest cell, the
\* header and the three characters of the alignment row included.
ColumnWidth(c, col) == Max({Len(HeaderCell(col)), Len(c.body[col]), 3})

\* The alignment row cell of a column: dashes, with a colon on the left for
\* left and center, on the right for right and center.
AlignmentRow(c, col) ==
    LET a == c.alignment[col]
        left == IF a \in {"Left", "Center"} THEN <<":">> ELSE <<>>
        right == IF a \in {"Right", "Center"} THEN <<":">> ELSE <<>>
    IN  left \o [i \in 1..(ColumnWidth(c, col) - Len(left) - Len(right)) |-> "-"] \o right

\* A rendered line: the indentation, `|`, and every cell padded to the width
\* of its column between one space and ` |`.
RenderedLine(c, cells) ==
    QuotePrefix(c) \o <<"|">>
        \o Concat([col \in 1..Len(c.alignment) |->
                    <<" ">> \o cells[col]
                        \o [i \in 1..(ColumnWidth(c, col) - Len(cells[col])) |-> " "]
                        \o <<" ", "|">>])

ItemMarkerWritten(c) ==
    LET m == Unwrap(list_marker(Config_default, ItemInput(c)))
    IN  IF m.ordered
        THEN [i \in 1..m.zero_padding |-> "0"] \o NatToString(m.number) \o <<m.marker>>
        ELSE <<m.marker>>

\* Start(Item) has just been formatted.
ItemStarted ==
    /\ arg.construct = "Item"
    /\ epc = "run"
    /\ Processed = 2

\* C16: an empty list item (End(Item) comes next, or a newline separates the
\* marker from the next event) is written as its marker with no space after
\* it, a non-empty item as its marker and exactly one space, for ordered and
\* unordered markers alike.
C16_SpaceAfterMarkerIffNotEmpty ==
    ItemStarted =>
        fs.rewrite_buffer =
            ItemMarkerWritten(arg)
                \o (IF arg.content \in {"none", "next_line"} THEN <<>> ELSE <<" ">>)

\* The ordered item `2)` whose text is on the next line has been written
\* without a space.
C16_Witness ==
    /\ ItemStarted
    /\ arg.marker = <<"2", ")">>
    /\ arg.content = "next_line"
    /\ fs.rewrite_buffer = <<"1", ".">>

\* A Start(BlockQuote) of a block quote case has just been formatted: the
\* entry it pushed, and what it wrote behind the `>` of the outer levels.
QuoteStarted ==
    /\ arg.construct = "BlockQuote"
    /\ epc = "run"
    /\ Processed \in 1..arg.depth

QuotePushed == fs.indentation[Processed]

QuoteWritten == SubSeq(fs.rewrite_buffer, Processed, Len(fs.rewrite_buffer))

\* C17: an empty block quote is written as `>` and pushes the bare `>` as
\* its indentation; a block quote followed by a nested Start(BlockQuote)
\* pushes the bare `>` too; a block quote pushes and writes `> ` only when
\* its content starts on the line of its marker.
C17_BareMarkerUnlessContentOnLine ==
    QuoteStarted =>
        /\ Len(fs.indentation) = Processed
        /\ PeekIs(fs, "End", {"BlockQuote"}) =>
                QuoteWritten = <<">">> /\ QuotePushed = <<">">>
        /\ PeekIs(fs, "Start", {"BlockQuote"}) => QuotePushed = <<">">>
        /\ (QuotePushed = <<">", " ">> /\ QuoteWritten = <<">", " ">>)
                <=> (Processed = arg.depth /\ arg.content = "same_line")

\* The inner of two block quotes, empty, has been started behind the `>` of
\* the outer one and pushed the bare `>`.
C17_Witness ==
    /\ QuoteStarted
    /\ arg.depth = 2
    /\ Processed = 2
    /\ arg.content = "none"
    /\ fs.rewrite_buffer = <<">", ">">>
    /\ fs.indentation = <<<<">">>, <<">">>>>

\* ------------------------------------------------------------------
\* Claims about the write target
\* ------------------------------------------------------------------
\* The tags open after a stream of Start and End events, innermost last, or
\* "Broken" when an End does not close the tag opened last or a table head
\* or row starts outside a table.
RECURSIVE OpenTags(_)
OpenTags(events) ==
    IF events = <<>> THEN <<>>
    ELSE LET before == OpenTags(SubSeq(events, 1, Len(events) - 1))
             e == events[Len(events)]
         IN  IF before = "Broken" THEN "Broken"
             ELSE IF e.type = "Start"
             THEN IF e.tag \in {"TableHead", "TableRow"}
                     /\ (before = <<>> \/ before[Len(before)] # "Table")
                  THEN "Broken"
                  ELSE Append(before, e.tag)
             ELSE IF e.type = "End"
             THEN IF before # <<>> /\ before[Len(before)] = e.tag
                  THEN SubSeq(before, 1, Len(before) - 1)
                  ELSE "Broken"
             ELSE before

\* Every End of the stream closes the Start opened last.
WellNested(events) == OpenTags(events) # "Broken"

Selected(st) ==
    LET tags == [i \in 1..Len(st.nested_context) |-> st.nested_context[i].tag]
        in_code_block == tags # <<>> /\ tags[Len(tags)] = "CodeBlock"
        html_block == IsSome(st.external_formatter)
                        /\ Unwrap(st.external_formatter).context = "HtmlBlock"
        in_table == \E i \in 1..Len(tags) : tags[i] \in {"TableHead", "TableRow"}
    IN  IF st.force_rewrite_buffer THEN "rewrite_buffer"
        ELSE IF in_code_block THEN "external_formatter"
        ELSE IF html_block THEN "external_formatter"
        ELSE IF in_table THEN "table_state"
        ELSE IF IsSome(st.external_formatter) THEN "external_formatter"
        ELSE "rewrite_buffer"

\* The buffers of `after` that hold more than in `before`.
Grown(before, after) ==
    (IF after.rewrite_buffer # before.rewrite_buffer THEN {"rewrite_buffer"} ELSE {})
        \cup (IF after.external_formatter # before.external_formatter
              THEN {"external_formatter"} ELSE {})
        \cup (IF after.table_state # before.table_state THEN {"table_state"} ELSE {})

\* The selected buffer exists in the state `st`.
SelectedExists(st) ==
    CASE Selected(st) = "external_formatter" -> IsSome(st.external_formatter)
      [] Selected(st) = "table_state" -> IsSome(st.table_state)
      [] OTHER -> TRUE

\* C19: a write goes to the first buffer of this order whose condition
\* holds: the rewrite buffer in forced mode, the external formatter inside a
\* code block, the external formatter inside an HTML block, the table state
\* inside a table head or row, an open external formatter, the rewrite
\* buffer; and to no buffer behind it in the order.
C19_WriteTargetByPriority ==
    Returned =>
        /\ Grown(ret[1], fs) \subseteq {Selected(ret[1])}
        /\ SelectedExists(ret[1]) => Grown(ret[1], fs) = {Selected(ret[1])}

\* A write inside a code block inside a table row, with a table state and
\* the code block's formatter open, has gone to the formatter.
C19_Witness ==
    /\ Returned
    /\ epc = "idle"
    /\ Len(ret[1].nested_context) = 2
    /\ ret[1].nested_context[1].tag = "TableRow"
    /\ ret[1].nested_context[2].tag = "CodeBlock"
    /\ IsSome(ret[1].table_state)
    /\ ~ret[1].force_rewrite_buffer
    /\ IsSome(ret[1].external_formatter)
    /\ Unwrap(fs.external_formatter).buffer = <<"x">>
    /\ fs.table_state = ret[1].table_state

\* The text of a string: the letters the blocks are written in, without
\* markers and whitespace.
Payload(s) == SelectSeq(s, LAMBDA ch : ch \in {"a", "b", "c", "d", "p"})

ClosesSideBuffer(e) ==
    e.type = "End" /\ e.tag \in {"Paragraph", "CodeBlock", "HtmlBlock"}

ClosesTable(e) == e.type = "End" /\ e.tag = "Table"

\* After the End of a Paragraph, CodeBlock or HtmlBlock the formatter slot is
\* empty, after End(Table) the table state is; a returned run leaves both
\* empty and every letter of the document in the returned string.
SideBuffersEmptied ==
    /\ (epc = "run" /\ Processed > 0 /\ ClosesSideBuffer(LastEvent)) =>
            fs.external_formatter = NoneOpt
    /\ (epc = "run" /\ Processed > 0 /\ ClosesTable(LastEvent)) =>
            fs.table_state = NoneOpt
    /\ Finished =>
            /\ fs.external_formatter = NoneOpt
            /\ fs.table_state = NoneOpt
            /\ Payload(output) = Payload(BlockInput(arg))

\* The step that formats such an End appends the text of the side buffer it
\* finds open to the rewrite buffer.
SplicedAtEnd ==
    (epc = "run" /\ epc' = "run" /\ fs.events # <<>>) =>
        /\ (ClosesSideBuffer(Head(fs.events)) /\ IsSome(fs.external_formatter)) =>
                Payload(fs'.rewrite_buffer) =
                    Payload(fs.rewrite_buffer)
                        \o Payload(into_buffer(Unwrap(fs.external_formatter)))
        /\ (ClosesTable(Head(fs.events)) /\ IsSome(fs.table_state)) =>
                Payload(fs'.rewrite_buffer) =
                    Payload(fs.rewrite_buffer)
                        \o Payload(TableState_format(Unwrap(fs.table_state)))

Failed == epc = "error"

ItemIndentation == fs.indentation[Len(fs.indentation)]

\* ListMarker::indentation() of any marker.
MarkerIndentation == ListMarker_indentation([ordered |-> FALSE])

\* C22: the indentation pushed for a list item is the indentation of its
\* marker when the first child of the item is a code block, an HTML block or
\* a table, whatever Config.fixed_indentation is, and otherwise
\* Config.fixed_indentation when it is set and the indentation of the marker
\* when it is not.
C22_ItemIndentation ==
    (Returned /\ fs.panic = "") =>
        ItemIndentation =
            IF arg.child \in {"fenced", "indented", "html", "table"}
            THEN MarkerIndentation
            ELSE OrDefault(arg.fixed_indentation, MarkerIndentation)

\* ------------------------------------------------------------------
\* Claims about links and images
\* ------------------------------------------------------------------
\* What Start writes for the link type.
LinkOpener(c) ==
    IF c.image THEN <<"!", "[">>
    ELSE IF c.link_type \in {"Autolink", "Email"} THEN <<"<">> ELSE <<"[">>

\* What End writes for the link type: the destination, the title in the
\* quotes of the source and the label without the spaces around them.
LinkCloser(c) ==
    CASE c.link_type \in {"Autolink", "Email"} -> <<">">>
      [] c.link_type = "Inline" ->
            IF IsSome(c.quote)
            THEN <<"]", "(", "u", " ", Unwrap(c.quote), "t", Unwrap(c.quote), ")">>
            ELSE <<"]", "(", "u", ")">>
      [] c.link_type \in {"Reference", "ReferenceUnknown"} -> <<"]", "[", "l", "]">>
      [] c.link_type \in {"Collapsed", "CollapsedUnknown"} -> <<"]", "[", "]">>
      [] c.link_type \in {"Shortcut", "ShortcutUnknown"} -> <<"]">>

\* C23: Start writes `<` for autolinks and email links, `[` for the other
\* links and `![` for images; End writes the closer of the link type of the
\* tag it pops: `>`, `](dest)` or `](dest "title")`, `][label]`, `][]`, `]`;
\* `<` is closed by `>` and `[` by a `]` form.
C23_LinkBracketsPaired ==
    /\ (epc = "run" /\ arg.construct = "Link" /\ Processed = 2) =>
            fs.rewrite_buffer \o Unwrap(fs.external_formatter).buffer = LinkOpener(arg)
    /\ (Ended /\ arg.construct = "Link") =>
            /\ Finished
            /\ output = LinkOpener(arg) \o LinkText(arg) \o LinkCloser(arg)
            /\ (Head(output) = "<") = (output[Len(output)] = ">")

\* An inline image with spaces around its destination and a title in single
\* quotes has been written.
C23_Witness ==
    /\ Finished
    /\ arg.construct = "Link"
    /\ arg.image
    /\ arg.padded
    /\ output = <<"!", "[", "a", "]", "(", "u", " ", "'", "t", "'", ")">>

\* ------------------------------------------------------------------
\* Claims about emphasis markers
\* ------------------------------------------------------------------
\* The marker of a span: the fixed marker, or the first `limit` characters
\* of the run of marker characters its source range starts with.
SpanMarker(fixed, limit) ==
    IF IsSome(fixed) THEN Unwrap(fixed) ELSE [i \in 1..limit |-> arg.char]

EmphasisMarker == SpanMarker(fs.config.fixed_emphasis_marker, 1)

StrongMarker == SpanMarker(fs.config.fixed_strong_marker, 2)

\* C24: an Emphasis span is written between two copies of one marker, the
\* fixed emphasis marker of the Config or else the first character of the run
\* its source range starts with; a Strong span likewise, with the fixed strong
\* marker or the first two characters of the run.
C24_SameMarkerAtStartAndEnd ==
    (Ended /\ arg.construct = "Emphasis") =>
        /\ Finished
        /\ output =
                CASE arg.shape = "emphasis" -> EmphasisMarker \o <<"a">> \o EmphasisMarker
                  [] arg.shape = "strong" -> StrongMarker \o <<"a">> \o StrongMarker
                  [] arg.shape = "both" ->
                        EmphasisMarker \o StrongMarker \o <<"a">> \o StrongMarker
                            \o EmphasisMarker

\* `***a***` has been written with the fixed markers, as `___a___`.
C24_Witness ==
    /\ Finished
    /\ arg.construct = "Emphasis"
    /\ arg.shape = "both"
    /\ arg.char = "*"
    /\ arg.fixed
    /\ output = <<"_", "_", "_", "a", "_", "_", "_">>

\* ------------------------------------------------------------------
\* Claims about link destinations
\* ------------------------------------------------------------------
\* The parentheses of a destination that no backslash precedes.
UnescapedParens(url) ==
    SelectSeq([i \in 1..Len(url) |->
                    IF url[i] \in {"(", ")"} /\ (i = 1 \/ url[i - 1] # "\\")
                    THEN url[i] ELSE "-"],
              LAMBDA ch : ch # "-")

\* Every `)` closes an open `(` and none stays open.
RECURSIVE Balanced(_, _)
Balanced(parens, open) ==
    IF parens = <<>> THEN open = 0
    ELSE IF Head(parens) = "(" THEN Balanced(Tail(parens), open + 1)
    ELSE open > 0 /\ Balanced(Tail(parens), open - 1)

\* C25: format_link_url wraps in angle brackets every destination that
\* contains a space or whose unescaped parentheses are unbalanced, returns
\* `<>` for the empty destination when wrap_empty_urls is set, and returns
\* every other destination unchanged.
C25_LinkUrlWrapped ==
    Returned =>
        ret[1] = IF CountChar(arg.url, " ") > 0 \/ ~Balanced(UnescapedParens(arg.url), 0)
                 THEN <<"<">> \o arg.url \o <<">">>
                 ELSE IF arg.url = <<>> /\ arg.wrap_empty_urls THEN <<"<", ">">>
                 ELSE arg.url

\* ------------------------------------------------------------------
\* Claims about the context of an external formatter
\* ------------------------------------------------------------------
\* context() of the formatter returned.
ReportedContext ==
    IF arg.kind = "FnFormatter" THEN ExternalFormatter_context(ret[1])
    ELSE FormatterCombination_context(ret[1])

\* The engine state that holds the formatter the engine builds for the
\* buffer type.
Holding(buffer_type) ==
    [FormatState_new(<<>>, Config_default, <<>>, <<>>) EXCEPT
        !.external_formatter =
            Some(ExternalFormatter_new(buffer_type.variant, arg.max_width))]

\* C26: the formatter DefaultFormatterCombination::new or FnFormatter::new
\* builds for a buffer type reports the formatting context of the buffer
\* type, FormatterCombination::new selects the variant the buffer type names,
\* and in_paragraph and in_html_block answer by that context.
C26_ContextOfBufferType ==
    Returned =>
        /\ ReportedContext = to_formatting_context(arg.buffer_type)
        /\ arg.kind = "DefaultFormatterCombination" =>
                ret[1].variant = arg.buffer_type.variant
        /\ in_paragraph(Holding(arg.buffer_type))
                = (ReportedContext = "FormattingContext::Paragraph")
        /\ in_html_block(Holding(arg.buffer_type))
                = (ReportedContext = "FormattingContext::HtmlBlock")

\* The default formatter of a code block with an info string has been
\* built: a PreservingBuffer that reports CodeBlock.
C26_Witness ==
    /\ Returned
    /\ arg.kind = "DefaultFormatterCombination"
    /\ arg.buffer_type = [variant |-> "CodeBlock", info |-> Some(<<"r", "s">>)]
    /\ ret[1].inner.impl = "PreservingBuffer"
    /\ ReportedContext = "FormattingContext::CodeBlock"

\* ------------------------------------------------------------------
\* Claims about TrimTo4Indent
\* ------------------------------------------------------------------
NonSpaces(s) == SelectSeq(s, LAMBDA c : c # " ")

\* Every line of the buffer starts with a multiple of four spaces.
LinesIndentedBy4(buffer) ==
    \A i \in DOMAIN SplitInclusive(buffer) :
        LeadingIn(SplitInclusive(buffer)[i], {" "}) % 4 = 0

\* C27: after any sequence of write_str calls on a TrimTo4Indent, however the
\* text is split across the calls, every line of the buffer starts with a
\* number of spaces that is a multiple of 4, and the buffer holds the
\* non-space characters written, no more and no fewer.
C27_LinesTrimmedTo4 ==
    (arg # <<>> /\ ret # <<>> /\ arg.written # <<>>) =>
        /\ LinesIndentedBy4(ret[1].buffer)
        /\ NonSpaces(ret[1].buffer) = NonSpaces(arg.written)

\* ------------------------------------------------------------------
\* Claims about what buffer routing depends on
\* ------------------------------------------------------------------
\* The two states have the same top of nested_context and the same open
\* external formatter, by its context, or none.
SameTopAndFormatter(a, b) ==
    /\ LastTag(a) = LastTag(b)
    /\ ExternalContext(a) = ExternalContext(b)

InTable(st) ==
    \E i \in 1..Len(st.nested_context) :
        st.nested_context[i].tag \in {"TableHead", "TableRow"}

\* ... and the same forced mode, are both inside a table head or row or
\* both outside, and both have a table state or both have none.
SameRoutingInputs(a, b) ==
    /\ SameTopAndFormatter(a, b)
    /\ a.force_rewrite_buffer = b.force_rewrite_buffer
    /\ InTable(a) = InTable(b)
    /\ IsSome(a.table_state) = IsSome(b.table_state)

\* C28 as stated: two engine states that agree on the top of nested_context
\* and on the open external formatter and its context select the same write
\* target.
C28_RoutingByTopAndFormatter ==
    Returned =>
        \A other \in RoutingStates :
            SameTopAndFormatter(ret[1], other) =>
                current_buffer(other) = current_buffer(ret[1])

\* C28: two engine states that agree on force_rewrite_buffer, on the top of
\* nested_context, on whether a TableHead or TableRow is anywhere in
\* nested_context, on whether a table state exists and on the open external
\* formatter and its context select the same write target, and a write goes
\* to that target.
C28_RoutingByItsInputs ==
    Returned =>
        /\ \A other \in RoutingStates :
              SameRoutingInputs(ret[1], other) =>
                  current_buffer(other) = current_buffer(ret[1])
        /\ Grown(ret[1], fs) = {current_buffer(ret[1])} \ {"none"}

\* A write with an Item on top of the stack and no external formatter has
\* gone to the table state, the Item being inside a table row.
C28_Witness ==
    /\ Returned
    /\ epc = "idle"
    /\ Len(ret[1].nested_context) = 2
    /\ ret[1].nested_context[1].tag = "TableRow"
    /\ ret[1].nested_context[2].tag = "Item"
    /\ ret[1].external_formatter = NoneOpt
    /\ IsSome(ret[1].table_state)
    /\ ~ret[1].force_rewrite_buffer
    /\ fs.table_state # ret[1].table_state
    /\ fs.rewrite_buffer = ret[1].rewrite_buffer

\* ------------------------------------------------------------------
\* Claims about the indentation of nested block quotes
\* ------------------------------------------------------------------
OpenQuotes(st) ==
    Cardinality({i \in DOMAIN st.nested_context : st.nested_context[i].tag = "BlockQuote"})

\* The step formats the next event, a Start or End of a block quote nested
\* in the block quote of a NestedBlockQuote case, to its end.
FormatsNested(type, open) ==
    /\ arg # <<>>
    /\ arg.construct = "NestedBlockQuote"
    /\ epc = "run"
    /\ fs.events # <<>>
    /\ Head(fs.events).type = type
    /\ Head(fs.events).tag = "BlockQuote"
    /\ OpenQuotes(fs) = open
    /\ fs'.events = Tail(fs.events)
    /\ fs'.panic = ""
    /\ ~fs'.error

\* The indentation entry of the outermost block quote.
ParentEntry(st) == st.indentation[1]

\* C29: when a block quote starts inside a block quote whose indentation
\* entry is `> `, the entry is collapsed to `>`, and after the End of the
\* nested block quote, empty or not, the entry of the parent is `> ` again.
C29_QuoteIndentationRestored ==
    [][/\ FormatsNested("Start", 1) =>
            /\ ParentEntry(fs) = <<">", " ">>
            /\ ParentEntry(fs') = <<">">>
       /\ FormatsNested("End", 2) => ParentEntry(fs') = <<">", " ">>]_vars

\* ------------------------------------------------------------------
\* Claims about the indentation stack
\* ------------------------------------------------------------------
\* The tags whose Start pushes an indentation entry.
Indents(tag) ==
    \/ tag.tag \in {"BlockQuote", "Item", "Table"}
    \/ tag.tag = "CodeBlock" /\ tag.kind = "Indented"

\* The open tags that indent, outermost first.
IndentingContext(st) == SelectSeq(st.nested_context, Indents)

\* The entry is one that the Start of the tag pushes, or that an End has put
\* in its place.
EntryOf(tag, entry) ==
    CASE tag.tag = "BlockQuote" -> entry \in {<<">">>, <<">", " ">>}
      [] tag.tag = "Table" -> entry = <<"|">>
      [] tag.tag = "CodeBlock" -> entry = <<" ", " ", " ", " ">>
      [] tag.tag = "Item" -> AllWhitespace(entry)

\* C30: while a well-nested document is formatted, after each event the
\* indentation stack holds one entry for each open BlockQuote, Item,
\* indented CodeBlock and Table of nested_context, in their order, and none
\* for any other tag; it is empty when the document has been formatted.
C30_IndentationMirrorsContext ==
    (epc \in {"run", "done"} /\ fs.panic = "" /\ ~fs.error /\ WellNested(delivered)) =>
        /\ Len(fs.indentation) = Len(IndentingContext(fs))
        /\ \A i \in DOMAIN fs.indentation :
              EntryOf(IndentingContext(fs)[i], fs.indentation[i])
        /\ (epc = "done" /\ fs.nested_context = <<>>) => fs.indentation = <<>>

\* Inside the paragraph of a block quote nested in a block quote: three open
\* tags, two entries, the parent's collapsed.
C30_Witness ==
    /\ epc = "run"
    /\ fs.panic = ""
    /\ WellNested(delivered)
    /\ arg # <<>>
    /\ arg.construct = "NestedBlockQuote"
    /\ Len(fs.nested_context) = 3
    /\ fs.nested_context[3].tag = "Paragraph"
    /\ fs.indentation = <<<<">">>, <<">", " ">>>>

\* ------------------------------------------------------------------
\* Claims about setext headings
\* ------------------------------------------------------------------
\* The heading of the case is open: its Start has been formatted, its End
\* has not.
HeadingOpen ==
    /\ epc = "run"
    /\ fs.nested_context = <<>> \/ fs.nested_context[Len(fs.nested_context)].tag = "BlockQuote"
    /\ IsSome(fs.header_id_and_classes)

\* C31: for a heading whose source is a text line and an underline of `=` or
\* `-`, Start(Heading) writes no `#` and records the underline, and
\* End(Heading) writes the attributes, if any, a line break and the underline
\* and leaves setext_header None; for an ATX heading setext_header stays None
\* and the `#` marker is written at Start.
C31_SetextDeferred ==
    /\ (arg # <<>> /\ arg.construct = "Setext" /\ fs.panic = "") =>
          /\ HeadingOpen =>
                /\ fs.setext_header = Some(arg.underline)
                /\ \A i \in DOMAIN fs.rewrite_buffer : fs.rewrite_buffer[i] # "#"
          /\ ~HeadingOpen => fs.setext_header = NoneOpt
          /\ Finished =>
                output = SetextPrefix(arg) \o <<"a">>
                            \o (IF arg.attributes THEN <<" ", "{", "#", "i", "}">> ELSE <<>>)
                            \o <<"\n">> \o SetextPrefix(arg) \o arg.underline
                            \o arg.line_end
    /\ (arg # <<>> /\ arg.construct = "Heading" /\ fs.panic = "") =>
          /\ fs.setext_header = NoneOpt
          /\ HeadingOpen =>
                /\ Len(fs.rewrite_buffer) >= arg.level
                /\ SubSeq(fs.rewrite_buffer, 1, arg.level) = Hashes(arg.level)

\* ------------------------------------------------------------------
\* Claims about needs_indent
\* ------------------------------------------------------------------
\* The step formats the next event to its end.
FormatsEvent ==
    /\ epc = "run"
    /\ fs.events # <<>>
    /\ fs'.events = Tail(fs.events)
    /\ fs'.panic = ""
    /\ ~fs'.error

\* The event is one after which the engine calls check_needs_indent: an End,
\* a Text it formats itself, an InlineHtml, an InlineMath or a Rule.
ChecksNeedsIndent(st, e) ==
    \/ e.type \in {"End", "InlineHtml", "InlineMath", "Rule"}
    \/ /\ e.type = "Text"
       /\ ~(IsSome(st.external_formatter) /\ ExternalContext(st) # "Paragraph")

\* needs_indent after the event `e` with `n` the event that follows.
NeedsIndentSet(e, n, needs_indent) ==
    /\ (n.type \in {"Start", "Rule", "Html"} \/ (n.type = "End" /\ n.tag = "Item"))
            => needs_indent
    /\ n.type = "Text" => (needs_indent = (e.type = "End"))

\* The newlines at the end of `t`.
TrailingNewlines(t) == Len(t) - Len(TrimEndMatches(t, {"\n"}))

\* The Start finds needs_indent set: it leaves it reset and, writing to a
\* rewrite buffer that holds text, has made up the newlines the source has
\* before it.
NeedsIndentConsumed(e) ==
    /\ ~fs'.needs_indent
    /\ (current_buffer(fs) = "rewrite_buffer" /\ fs.rewrite_buffer # <<>>) =>
          LET n == count_newlines(fs, RangeOf(e))
              k == TrailingNewlines(fs.rewrite_buffer)
          IN  CountChar(fs'.rewrite_buffer, "\n")
                >= CountChar(fs.rewrite_buffer, "\n") + (IF n > k THEN n - k ELSE 0)

\* C32: after an End, a Text the engine formats itself, an InlineHtml, an
\* InlineMath or a Rule, needs_indent is true when the next event is a Start,
\* a Rule, an Html or End(Item), and when the next event is a Text it is true
\* exactly if the event formatted was an End; a Start of a Paragraph,
\* Heading, BlockQuote, List or Table that finds needs_indent set writes the
\* pending newlines and resets it.
C32_NeedsIndentProtocol ==
    [][FormatsEvent =>
        /\ (ChecksNeedsIndent(fs, Head(fs.events)) /\ fs'.events # <<>>) =>
                NeedsIndentSet(Head(fs.events), Head(fs'.events), fs'.needs_indent)
        /\ (/\ Head(fs.events).type = "Start"
            /\ Head(fs.events).tag \in {"Paragraph", "Heading", "BlockQuote", "List", "Table"}
            /\ fs.needs_indent) => NeedsIndentConsumed(Head(fs.events))]_vars

\* The paragraph `c` has started after the End of the nested block quote,
\* which left needs_indent set: the two line breaks between them are in the
\* rewrite buffer and needs_indent is reset.
C32_Witness ==
    /\ epc = "run"
    /\ fs.panic = ""
    /\ arg # <<>>
    /\ arg.construct = "NestedBlockQuote"
    /\ arg.content = "same_line"
    /\ Processed > 1
    /\ LastEvent.type = "Start"
    /\ LastEvent.tag = "Paragraph"
    /\ delivered[Processed - 1].type = "End"
    /\ delivered[Processed - 1].tag = "BlockQuote"
    /\ ~fs.needs_indent
    /\ CountChar(fs.rewrite_buffer, "\n") = 4

\* ---------------------------------------------------------------------------
\* write_newlines on the calls the engine makes
\* ---------------------------------------------------------------------------

\* The text held by the buffer `b` of the state `st`; for the table state, the
\* cell being written.
BufferText(st, b) ==
    CASE b = "rewrite_buffer" -> st.rewrite_buffer
      [] b = "external_formatter" -> Unwrap(st.external_formatter).buffer
      [] b = "table_state" ->
            LET ts == Unwrap(st.table_state)
                row == ts.rows[Len(ts.rows)]
            IN  IF ts.col + 1 <= Len(row) THEN row[ts.col + 1] ELSE <<>>
      [] OTHER -> <<>>

\* What the call `c` of write_newlines_inner appended to the buffer it writes to.
AppendedBy(c) ==
    LET b == current_buffer(c.st)
        before == BufferText(c.st, b)
        after == BufferText(Call("write_newlines_inner",
                                 <<c.st, c.max_newlines, c.always_trim>>), b)
    IN  IF Len(after) >= Len(before) /\ SubSeq(after, 1, Len(before)) = before
        THEN <<SubSeq(after, Len(before) + 1, Len(after))>>
        ELSE <<>>

\* The indentation stack as one string, trimmed of trailing whitespace or not.
IndentationText(st, trimmed) ==
    IF trimmed THEN TrimEnd(Concat(st.indentation)) ELSE Concat(st.indentation)

\* `m` newlines, each followed by the indentation, trimmed on all but the last
\* (and on the last too when `always_trim` is set).
RECURSIVE IndentedNewlines(_, _, _)
IndentedNewlines(st, m, always_trim) ==
    IF m = 0 THEN <<>>
    ELSE <<"\n">> \o IndentationText(st, m # 1 \/ always_trim)
            \o IndentedNewlines(st, m - 1, always_trim)

\* The newlines the buffer written to ends with when the call `c` is made.
NewlinesEnding(c) == TrailingIn(BufferText(c.st, current_buffer(c.st)), {"\n"})

\* The newlines the call `c` is to add: max(0, n - k).
NewlinesMissing(c) ==
    IF c.max_newlines > NewlinesEnding(c) THEN c.max_newlines - NewlinesEnding(c) ELSE 0

ReadSoFar == [i \in 1..Len(upstream) |-> i]

\* The sequence `s` holds every index of 1..n exactly once.
IsPermutation(s, n) ==
    /\ Len(s) = n
    /\ \A i \in 1..n : \E j \in 1..n : s[j] = i

\* C34: as long as the adapter has not panicked, every upstream event read
\* is held exactly once, either emitted or waiting in the out-of-place queue;
\* next() returns None only when the upstream iterator and the queue are both
\* empty, and the emitted sequence is then a permutation of the upstream
\* sequence; every call of next() that returns an event emits exactly one, so
\* None is returned after at most as many calls as there are upstream events.
C34_NothingLostNothingTwice ==
    /\ [](~Panicked =>
            IsPermutation(emitted \o out_of_place_events, Len(upstream)))
    /\ [](apc = "finished" =>
            /\ inner_done
            /\ out_of_place_events = <<>>
            /\ IsPermutation(emitted, Len(upstream)))
    /\ [][apc' = "ready" => Len(emitted') = Len(emitted) + 1]_vars

\* next() returned None after events were emitted in another order than read.
C34_Witness ==
    /\ apc = "finished"
    /\ Len(upstream) = MaxUpstream
    /\ \E i \in 1..Len(emitted) : emitted[i] # i

\* The family span open after the first n upstream events, a span being
\* closed by the End of its kind only; "Overlap" once a family Start was read
\* inside an open family span.
RECURSIVE OpenSpan(_)
OpenSpan(n) ==
    IF n = 0 THEN None
    ELSE LET before == OpenSpan(n - 1)
             e == upstream[n]
         IN  IF before = "Overlap" \/ e.tag \notin FamilyTags THEN before
             ELSE IF e.type = "Start"
                  THEN IF before = None THEN e.tag ELSE "Overlap"
                  ELSE IF before = e.tag THEN None ELSE before

\* No family Start was read while a family span was open.
Sequential == OpenSpan(Len(upstream)) # "Overlap"

\* Every family End read closes the open span of its kind.
EndsMatch ==
    \A n \in 1..Len(upstream) :
        (upstream[n].type = "End" /\ upstream[n].tag \in FamilyTags)
            => OpenSpan(n - 1) = upstream[n].tag

\* The adapter has passed every event read through, in order, and has
\* buffered none; its context is the open family span.
PassedThrough ==
    /\ emitted = ReadSoFar
    /\ out_of_place_events = <<>>
    /\ buffered = {}
    /\ context = OpenSpan(Len(upstream))

\* C35 (as claimed): on an upstream sequence in which no family Start occurs
\* while a family span is open, the emitted sequence is the upstream sequence,
\* the out-of-place queue is empty throughout, and context is Some(k) exactly
\* between the Start and the End of a family span of kind k.
C35_IdentityOnSequential == Sequential => PassedThrough

\* C35 (amended): the same, on upstream sequences in which moreover every
\* family End closes the open span of its kind.
C35_IdentityOnWellFormedSequential == (Sequential /\ EndsMatch) => PassedThrough

\* next() returned None after passing three sequential spans through.
C35_Witness ==
    /\ apc = "finished"
    /\ Sequential
    /\ EndsMatch
    /\ Len(upstream) = MaxUpstream
    /\ \A k \in FamilyTags : \E n \in 1..Len(upstream) :
            upstream[n] = Ev("Start", k) /\ OpenSpan(n) = k

\* ---------------------------------------------------------------------------
\* Inline writes of an open paragraph
\* ---------------------------------------------------------------------------

\* A paragraph is open: Start(Paragraph) was formatted, its End was not.
ParagraphOpen(st) ==
    \E i \in DOMAIN st.nested_context : st.nested_context[i].tag = "Paragraph"

\* Text, a code span, a break, or the markup of an emphasis or a link.
InlineEvent(e) ==
    \/ e.type \in {"Text", "Code", "SoftBreak", "HardBreak"}
    \/ /\ e.type \in {"Start", "End"}
       /\ e.tag \in {"Emphasis", "Strong", "Strikethrough", "Link", "Image"}

\* A DisplayMath event was formatted since the open paragraph started.
AfterDisplayMath ==
    \E i \in 1..Processed :
        /\ delivered[i].type = "DisplayMath"
        /\ \A j \in i..Processed :
                ~(delivered[j].type = "Start" /\ delivered[j].tag = "Paragraph")

\* The step formats an inline event of an open paragraph, outside a table
\* and outside forced-rewrite mode.
FormatsInlineOfParagraph ==
    /\ FormatsEvent
    /\ InlineEvent(Head(fs.events))
    /\ ParagraphOpen(fs)
    /\ ~fs.force_rewrite_buffer
    /\ ~(in_table_header(fs) \/ in_table_row(fs))

\* The step leaves the rewrite buffer alone and the paragraph's formatter open.
WritesToParagraphFormatter ==
    /\ fs'.rewrite_buffer = fs.rewrite_buffer
    /\ IsSome(fs'.external_formatter)
    /\ ExternalContext(fs') = "Paragraph"

\* C36: while a paragraph is open and no table or forced-rewrite mode is
\* active, formatting an inline event (text, code span, break, emphasis or
\* link markup) leaves the rewrite buffer unchanged and the paragraph's
\* external formatter open, also when a DisplayMath event was formatted
\* earlier in the paragraph.
C36_InlineWritesStayInParagraphFormatter ==
    [][FormatsInlineOfParagraph => WritesToParagraphFormatter]_vars

\* ---------------------------------------------------------------------------
\* The slice of count_newlines
\* ---------------------------------------------------------------------------

\* C37: count_newlines is never called with last_position beyond the end of
\* the range it is given, so its slice input[last_position..range.end] never
\* starts after its end, whatever events the engine is given.
C37_CountNewlinesSliceInBounds ==
    epc # "idle" => fs.panic # "count_newlines: slice index starts after its end"

\* ---------------------------------------------------------------------------
\* Inline link round trip
\* ---------------------------------------------------------------------------

\* The positions of `s` holding the character `c` with no backslash before it.
Unescaped(s, c) == {i \in 1..Len(s) : s[i] = c /\ ~(i > 1 /\ s[i - 1] = "\\")}

\* A destination without leading or trailing whitespace that is not wrapped
\* in angle brackets.
PlainDestination(url) ==
    /\ Trim(url) = url
    /\ ~(StartsWith(url, "<") /\ EndsWith(url, ">") /\ Len(url) > 1)

\* A title holding no unescaped quote character of its own and no unescaped
\* opening parenthesis.
PlainTitle(title) ==
    IsSome(title) =>
        /\ Unescaped(Unwrap(title).title, Unwrap(title).quote) = {}
        /\ Unescaped(Unwrap(title).title, "(") = {}

\* C38: for a destination without surrounding whitespace or angle brackets
\* and an optional title free of unescaped quote characters and opening
\* parentheses, find_inline_url_and_title applied to the link as written by
\* write_inline_link returns the destination and the title (with its quote
\* character) that were written.
C38_InlineLinkRoundTrip ==
    (Returned /\ PlainDestination(arg.url) /\ PlainTitle(arg.title)) =>
        ret[1] = Some([url |-> arg.url, title |-> arg.title])

\* ---------------------------------------------------------------------------
\* Zero padding of ordered list markers
\* ---------------------------------------------------------------------------

\* C39: for every zero padding z of an ordered list marker,
\* ListMarker::zero_padding returns without failing, and what it returns is
\* exactly z characters `0`.
C39_ZeroPaddingForEveryValue ==
    (Returned /\ arg.ordered) =>
        /\ ret[1].panic = ""
        /\ Len(ret[1].text) = arg.zero_padding
        /\ \A i \in 1..Len(ret[1].text) : ret[1].text[i] = "0"

====
